---- MODULE Spec2Model ----
(***************************************************************************)
(* Loadstone: the on-disk response cache (cache.ts), the wiki client, the  *)
(* wiki page parser and the RuneMetrics profile client (index.ts), and the *)
(* profile command of the CLI (profile.ts), as state machines.             *)
(*                                                                         *)
(* The specifications share the module's variables:                        *)
(*   Spec          fetchJsonWithCache calls, suspended at their awaits,    *)
(*                 against a cache directory, a clock and a network;       *)
(*   SpecResolve   resolveCacheOptions over explicit options and an        *)
(*                 environment snapshot;                                   *)
(*   SpecClient    searchWiki, getPage, getCategoryMembers, getRSProfile   *)
(*                 against every outcome of their requests;                *)
(*   SpecParse     parseWikiContent over documents built from headings     *)
(*                 and content nodes;                                      *)
(*   SpecProfile   the profile command over its options and the profiles   *)
(*                 getRSProfile returns;                                   *)
(*   SpecRequests  the behaviours of Spec and of SpecClient together;      *)
(*   SpecKey       the cache keys derived for two requests.                *)
(***************************************************************************)
EXTENDS Integers, Sequences, FiniteSets, TLC

VARIABLES
    now,        \* Date.now(), in milliseconds
    files,      \* the cache files: path -> content
    written,    \* the bodies passed to fs.writeFile so far: path -> set of bodies
    call,       \* the fetchJsonWithCache calls in progress, one per slot
    started,    \* number of fetchJsonWithCache calls made so far
    env,        \* process.env, the LOADSTONE_CACHE_* variables
    rOptions,   \* SpecResolve: the CacheOptions passed to resolveCacheOptions;
                \* SpecKey: the two requests
    rResolved,  \* SpecResolve: what resolveCacheOptions returned;
                \* SpecKey: the keys derived so far
    op          \* the client operation, parse or command in progress

cacheVars   == <<now, files, written, call, started, env>>
resolveVars == <<rOptions, rResolved>>
clientVars  == <<op>>
vars        == <<now, files, written, call, started, env, rOptions, rResolved, op>>

(***************************************************************************)
(* Bounds of the model.                                                    *)
(***************************************************************************)
MaxTime  == 3     \* the clock runs 0..MaxTime
MaxCalls == 2     \* fetchJsonWithCache calls per behaviour

(***************************************************************************)
(* JavaScript values, tagged by type.                                      *)
(***************************************************************************)
Undefined == [t |-> "undefined"]
Null      == [t |-> "null"]
Bool(b)   == [t |-> "boolean", b |-> b]
Num(n)    == [t |-> "number", n |-> n]
NaN       == [t |-> "number", nan |-> TRUE]
Infinity  == [t |-> "number", inf |-> TRUE]
Str(s)    == [t |-> "string", s |-> s]

\* typeof v
TypeOf(v) == IF v.t = "null" THEN "object" ELSE v.t

\* !v is false
Truthy(v) ==
    CASE v.t = "undefined" -> FALSE
      [] v.t = "null"      -> FALSE
      [] v.t = "boolean"   -> v.b
      [] v.t = "number"    -> v # NaN /\ v # Num(0)
      [] v.t = "string"    -> v.s # ""
      [] OTHER             -> TRUE

\* a ?? b
Coalesce(a, b) == IF a.t \in {"undefined", "null"} THEN b ELSE a

\* Number.isFinite(v)
IsFinite(v) == v.t = "number" /\ v # NaN /\ v # Infinity

\* Number(s) for the strings the model's environment holds
NumberOf(s) ==
    CASE s = ""         -> Num(0)
      [] s = "0"        -> Num(0)
      [] s = "1"        -> Num(1)
      [] s = "2"        -> Num(2)
      [] s = "12"       -> Num(12)
      [] s = "-5"       -> Num(0 - 5)
      [] s = "Infinity" -> Infinity
      [] OTHER          -> NaN

(***************************************************************************)
(* cache.ts: configuration.                                                *)
(***************************************************************************)
DEFAULT_TTL_MS == 24 * 60 * 60 * 1000

\* path.join(os.homedir(), ".loadstone", "cache")
DefaultDir == "~/.loadstone/cache"

parsePositiveNumber(value) ==
    IF ~Truthy(value) THEN Undefined
    ELSE LET parsed == NumberOf(value.s)
         IN  IF IsFinite(parsed) /\ parsed.n > 0 THEN parsed ELSE Undefined

\* options?.field
OptField(options, field) ==
    IF options = Undefined THEN Undefined ELSE options[field]

\* resolveCacheOptions with the precedence reversed: the environment wins over
\* the explicit option
resolveCacheOptions_EnvFirst(options, e) ==
    LET envTtlMs    == parsePositiveNumber(e.LOADSTONE_CACHE_TTL_MS)
        envTtlHours == parsePositiveNumber(e.LOADSTONE_CACHE_TTL_HOURS)
        envDir      == e.LOADSTONE_CACHE_DIR
        hoursMs     == IF Truthy(envTtlHours)
                       THEN Num(envTtlHours.n * 60 * 60 * 1000)
                       ELSE Undefined
        ttlMs   == Coalesce(envTtlMs,
                     Coalesce(hoursMs,
                       Coalesce(OptField(options, "ttlMs"), Num(DEFAULT_TTL_MS))))
        dir     == Coalesce(envDir,
                     Coalesce(OptField(options, "dir"), Str(DefaultDir)))
        enabled == Coalesce(OptField(options, "enabled"), Bool(TRUE))
    IN  [enabled |-> enabled, ttlMs |-> ttlMs, dir |-> dir]

resolveCacheOptions(options, e) ==
    LET envTtlMs    == parsePositiveNumber(e.LOADSTONE_CACHE_TTL_MS)
        envTtlHours == parsePositiveNumber(e.LOADSTONE_CACHE_TTL_HOURS)
        envDir      == e.LOADSTONE_CACHE_DIR
        hoursMs     == IF Truthy(envTtlHours)
                       THEN Num(envTtlHours.n * 60 * 60 * 1000)
                       ELSE Undefined
        ttlMs   == Coalesce(OptField(options, "ttlMs"),
                     Coalesce(envTtlMs,
                       Coalesce(hoursMs, Num(DEFAULT_TTL_MS))))
        dir     == Coalesce(OptField(options, "dir"),
                     Coalesce(envDir, Str(DefaultDir)))
        enabled == Coalesce(OptField(options, "enabled"), Bool(TRUE))
    IN  [enabled |-> enabled, ttlMs |-> ttlMs, dir |-> dir]

(***************************************************************************)
(* cache.ts: keys, paths and file contents.                                *)
(***************************************************************************)
\* A plain object with properties p
Obj(p) == [t |-> "object", p |-> p]

\* v.name for a non-null v
Get(v, name) ==
    IF v.t = "object" /\ name \in DOMAIN v.p THEN v.p[name] ELSE Undefined

\* What a file holds: nothing, text JSON.parse rejects, or the JSON text of v
NoFile      == [f |-> "absent"]
Garbage     == [f |-> "garbage"]
JsonText(v) == [f |-> "json", v |-> v]

\* What a file holds while fs.writeFile is under way on it, or after one
\* failed half-way: nothing yet or the beginning of a text, which JSON.parse
\* rejects
Partial     == [f |-> "partial"]

\* JSON.stringify(v): properties whose value is undefined are left out
JSONstringify(v) ==
    IF v.t = "object"
    THEN JsonText(Obj([k \in {j \in DOMAIN v.p : v.p[j] # Undefined} |-> v.p[k]]))
    ELSE JsonText(v)

\* JSON.parse(text): the value, or a SyntaxError
JSONparse(text) ==
    IF text.f = "json" THEN [ok |-> TRUE, v |-> text.v]
    ELSE [ok |-> FALSE, v |-> Undefined]

\* method.toUpperCase()
ToUpperCase(m) ==
    CASE m = "get"  -> "GET"
      [] m = "post" -> "POST"
      [] OTHER      -> m

\* A URLSearchParams body carries its query string, an ArrayBuffer body its
\* base64 text; the callers modelled pass no other kind of body
buildCacheKey(url, fetchOptions, cacheKey) ==
    IF Truthy(cacheKey) THEN cacheKey.s
    ELSE LET m      == OptField(fetchOptions, "method")
             method == IF m = Undefined THEN "GET" ELSE ToUpperCase(m.s)
             body   == OptField(fetchOptions, "body")
             bodyKey == CASE TypeOf(body) = "string"    -> body.s
                          [] body.t = "URLSearchParams" -> body.query
                          [] body.t = "ArrayBuffer"     -> body.base64
                          [] OTHER                      -> ""
         IN  method \o ":" \o url \o ":" \o bodyKey

\* createHash("sha256").update(value).digest("hex"): distinct values are taken
\* to have distinct digests
hashKey(value) == "sha256(" \o value \o ")"

\* path.join(dir, `${hashKey(cacheKey)}.json`)
CachePath(dir, cacheKey) == <<dir, hashKey(cacheKey) \o ".json">>

\* readCacheEntry that takes the beginning of a text for an entry: a file
\* still being written is read as an entry with an empty body
readCacheEntry_ReadsPartial(file, ttlMs, t) ==
    LET parsed == JSONparse(file)
        entry  == parsed.v
    IN  IF file = Partial THEN [value |-> Str(""), rm |-> FALSE]
        ELSE IF file = NoFile \/ ~parsed.ok
        THEN [value |-> Null, rm |-> FALSE]
        ELSE IF ~Truthy(entry) \/ TypeOf(Get(entry, "storedAt")) # "number"
        THEN [value |-> Null, rm |-> TRUE]
        ELSE IF t - Get(entry, "storedAt").n > ttlMs
        THEN [value |-> Null, rm |-> TRUE]
        ELSE [value |-> Get(entry, "body"), rm |-> FALSE]

\* readCacheEntry with the fs.rm of a stale entry forgotten
readCacheEntry_KeepsStale(file, ttlMs, t) ==
    LET parsed == JSONparse(file)
        entry  == parsed.v
    IN  IF file = NoFile \/ ~parsed.ok
        THEN [value |-> Null, rm |-> FALSE]
        ELSE IF ~Truthy(entry) \/ TypeOf(Get(entry, "storedAt")) # "number"
        THEN [value |-> Null, rm |-> TRUE]
        ELSE IF t - Get(entry, "storedAt").n > ttlMs
        THEN [value |-> Null, rm |-> FALSE]
        ELSE [value |-> Get(entry, "body"), rm |-> FALSE]

\* readCacheEntry up to its return or its await of fs.rm: the value it will
\* return, and whether it removes the file first
readCacheEntry(file, ttlMs, t) ==
    LET parsed == JSONparse(file)
        entry  == parsed.v
    IN  IF file = NoFile \/ ~parsed.ok
        THEN [value |-> Null, rm |-> FALSE]
        ELSE IF ~Truthy(entry) \/ TypeOf(Get(entry, "storedAt")) # "number"
        THEN [value |-> Null, rm |-> TRUE]
        ELSE IF t - Get(entry, "storedAt").n > ttlMs
        THEN [value |-> Null, rm |-> TRUE]
        ELSE [value |-> Get(entry, "body"), rm |-> FALSE]

\* writeCacheEntry: the text written at time t
writeCacheEntry(body, t) ==
    JSONstringify(Obj([storedAt |-> Num(t), body |-> body]))

(***************************************************************************)
(* The network, the inputs and the calls of fetchJsonWithCache.            *)
(***************************************************************************)
Urls   == {"u1", "u2"}
Bodies == {Null, Str("a")}

NoResponse == [settled |-> "none"]
Rejected   == [settled |-> "rejected"]
Fulfilled(ok, statusText, text) ==
    [settled |-> "fulfilled", ok |-> ok, statusText |-> statusText, text |-> text]

\* What fetch may settle with: a success with a JSON body, a success whose body
\* is not JSON, a non-success status, a rejection
Responses ==
    {Fulfilled(TRUE, "OK", JsonText(b)) : b \in Bodies}
      \cup {Fulfilled(TRUE, "OK", Garbage),
            Fulfilled(FALSE, "Not Found", Garbage),
            Rejected}

\* options.cache as callers pass it
CallOptions ==
    {Undefined} \cup
    [enabled : {Undefined, Bool(TRUE), Bool(FALSE)},
     ttlMs   : {Undefined, Num(1)},
     dir     : {Undefined}]

UnsetEnv ==
    [LOADSTONE_CACHE_TTL_MS    |-> Undefined,
     LOADSTONE_CACHE_TTL_HOURS |-> Undefined,
     LOADSTONE_CACHE_DIR       |-> Undefined]

\* The environment fetchJsonWithCache runs under in Spec: a TTL of 2 ms, so
\* that entries expire within the clock's range
CacheEnv == [UnsetEnv EXCEPT !.LOADSTONE_CACHE_TTL_MS = Str("2")]

Paths == {CachePath(DefaultDir, buildCacheKey(u, Undefined, Undefined)) : u \in Urls}

\* What a cache file left by an earlier process, or damaged since, may hold:
\* the last one is an entry written at time 0
FoundFiles ==
    {NoFile, Garbage, JsonText(Null),
     JsonText(Obj([body |-> Str("a")])),
     JsonText(Obj([storedAt |-> Str("0"), body |-> Str("a")])),
     JsonText(Obj([storedAt |-> Num(0), body |-> Str("a")]))}

NoResult   == [kind |-> "none"]
Return(v)  == [kind |-> "return", v |-> v]
Throw(msg) == [kind |-> "throw", msg |-> msg]

\* The calls that may be in progress at once
Slots == {1, 2}

Idle ==
    [pc |-> "idle", url |-> "", cache |-> resolveCacheOptions(Undefined, UnsetEnv),
     path |-> <<"", "">>, cached |-> Undefined, response |-> NoResponse,
     data |-> Undefined, text |-> NoFile, result |-> NoResult, reqs |-> 0]

(***************************************************************************)
(* fetchJsonWithCache, one action per stretch between two awaits.          *)
(*   pc = "read"   awaiting fs.readFile in readCacheEntry                  *)
(*   pc = "rm"     awaiting fs.rm in readCacheEntry                        *)
(*   pc = "fetch"  awaiting fetch and response.json()                      *)
(*   pc = "write"  awaiting ensureCacheDir                                 *)
(*   pc = "writing" awaiting fs.writeFile in writeCacheEntry               *)
(*   pc = "done"   settled, result holds the value or the error            *)
(***************************************************************************)
\* The stretch that starts the request (lines 1207 and 1222)
IssueRequest(k) == [k EXCEPT !.pc = "fetch", !.reqs = k.reqs + 1]

\* Lines 1218-1222: what the call does with the value readCacheEntry returned
AfterLookup(k, cached) ==
    IF cached # Null
    THEN [k EXCEPT !.pc = "done", !.cached = cached, !.result = Return(cached)]
    ELSE IssueRequest([k EXCEPT !.cached = cached])

\* Lines 1204-1217: resolve the options, then fetch (cache disabled) or look up
Start(c, url, options) ==
    /\ call[c].pc = "idle"
    /\ \A d \in Slots : d < c => call[d].pc # "idle"
    /\ started < MaxCalls
    /\ LET resolved == resolveCacheOptions(options, env)
           cacheKey == buildCacheKey(url, Undefined, Undefined)
           k == [Idle EXCEPT !.url = url, !.cache = resolved,
                             !.path = CachePath(resolved.dir.s, cacheKey)]
       IN  call' = [call EXCEPT ![c] =
                      IF ~resolved.enabled.b THEN IssueRequest(k)
                      ELSE [k EXCEPT !.pc = "read"]]
    /\ started' = started + 1
    /\ UNCHANGED <<now, files, written, env>>

\* Read with a hit that renews the entry: the file is rewritten with the
\* time of the lookup as its storedAt
Read_RenewsOnHit(c) ==
    /\ call[c].pc = "read"
    /\ LET r == readCacheEntry(files[call[c].path], call[c].cache.ttlMs.n, now)
       IN  /\ call' = [call EXCEPT ![c] =
                         IF r.rm THEN [call[c] EXCEPT !.pc = "rm"]
                         ELSE AfterLookup(call[c], r.value)]
           /\ files' = IF ~r.rm /\ r.value # Null
                       THEN [files EXCEPT ![call[c].path] = writeCacheEntry(r.value, now)]
                       ELSE files
    /\ UNCHANGED <<now, written, started, env>>

\* Lines 1171-1185: readFile settles; parse and check the entry at Date.now()
Read(c) ==
    /\ call[c].pc = "read"
    /\ LET r == readCacheEntry(files[call[c].path], call[c].cache.ttlMs.n, now)
       IN  call' = [call EXCEPT ![c] =
                      IF r.rm THEN [call[c] EXCEPT !.pc = "rm"]
                      ELSE AfterLookup(call[c], r.value)]
    /\ UNCHANGED <<now, files, written, started, env>>

\* Lines 1175-1176 and 1181-1182: fs.rm settles, readCacheEntry returns null
Rm(c) ==
    /\ call[c].pc = "rm"
    /\ files' = [files EXCEPT ![call[c].path] = NoFile]
    /\ call' = [call EXCEPT ![c] = AfterLookup(call[c], Null)]
    /\ UNCHANGED <<now, written, started, env>>

\* AfterFetch with the enabled flag forgotten once the response is in: the
\* body is written to the cache whatever the configuration
AfterFetch_AlwaysCaches(k, resp) ==
    LET r == [k EXCEPT !.response = resp]
    IN  IF resp = Rejected
        THEN [r EXCEPT !.pc = "done", !.result = Throw("fetch failed")]
        ELSE IF ~resp.ok
        THEN [r EXCEPT !.pc = "done",
                       !.result = Throw("Request failed: " \o resp.statusText)]
        ELSE LET parsed == JSONparse(resp.text)
             IN  IF ~parsed.ok
                 THEN [r EXCEPT !.pc = "done", !.result = Throw("SyntaxError")]
                 ELSE [r EXCEPT !.pc = "write", !.data = parsed.v]

\* AfterFetch with one more try: a request that failed is issued again
AfterFetch_Retries(k, resp) ==
    LET r == [k EXCEPT !.response = resp]
    IN  IF resp = Rejected \/ ~resp.ok
        THEN IssueRequest(r)
        ELSE LET parsed == JSONparse(resp.text)
             IN  IF ~parsed.ok
                 THEN [r EXCEPT !.pc = "done", !.result = Throw("SyntaxError")]
                 ELSE IF ~r.cache.enabled.b
                 THEN [r EXCEPT !.pc = "done", !.result = Return(parsed.v)]
                 ELSE [r EXCEPT !.pc = "write", !.data = parsed.v]

\* AfterFetch without the response.ok check
AfterFetch_NoOkCheck(k, resp) ==
    LET r == [k EXCEPT !.response = resp]
    IN  IF resp = Rejected
        THEN [r EXCEPT !.pc = "done", !.result = Throw("fetch failed")]
        ELSE LET parsed == JSONparse(resp.text)
             IN  IF ~parsed.ok
                 THEN [r EXCEPT !.pc = "done", !.result = Throw("SyntaxError")]
                 ELSE IF ~r.cache.enabled.b
                 THEN [r EXCEPT !.pc = "done", !.result = Return(parsed.v)]
                 ELSE [r EXCEPT !.pc = "write", !.data = parsed.v]

\* Lines 1207-1211 and 1222-1227: what the settled request makes of the call
AfterFetch(k, resp) ==
    LET r == [k EXCEPT !.response = resp]
    IN  IF resp = Rejected
        THEN [r EXCEPT !.pc = "done", !.result = Throw("fetch failed")]
        ELSE IF ~resp.ok
        THEN [r EXCEPT !.pc = "done",
                       !.result = Throw("Request failed: " \o resp.statusText)]
        ELSE LET parsed == JSONparse(resp.text)
             IN  IF ~parsed.ok
                 THEN [r EXCEPT !.pc = "done", !.result = Throw("SyntaxError")]
                 ELSE IF ~r.cache.enabled.b
                 THEN [r EXCEPT !.pc = "done", !.result = Return(parsed.v)]
                 ELSE [r EXCEPT !.pc = "write", !.data = parsed.v]

Fetch(c, resp) ==
    /\ call[c].pc = "fetch"
    /\ call' = [call EXCEPT ![c] = AfterFetch(call[c], resp)]
    /\ UNCHANGED <<now, files, written, started, env>>

\* AfterWrite without the try/catch: a failed cache write rejects the call
AfterWrite_Propagates(k, fail) ==
    IF fail = "none"
    THEN [k EXCEPT !.pc = "done", !.result = Return(k.data)]
    ELSE [k EXCEPT !.pc = "done", !.result = Throw(fail)]

\* Lines 1229-1236: the try around the cache write, and the return after it.
\* fail names the step that threw, "none" when both succeeded.
AfterWrite(k, fail) == [k EXCEPT !.pc = "done", !.result = Return(k.data)]

\* Lines 1230-1231 and 1192-1197: ensureCacheDir settles, writeCacheEntry
\* stamps the entry and fs.writeFile opens the file, which empties it. fail
\* names what threw: the mkdir, or the open (no permission, say).
Truncate(c, fail) ==
    /\ call[c].pc = "write"
    /\ IF fail = "none"
       THEN /\ files' = [files EXCEPT ![call[c].path] = Partial]
            /\ call' = [call EXCEPT ![c] =
                          [call[c] EXCEPT !.pc = "writing",
                                          !.text = writeCacheEntry(call[c].data, now)]]
       ELSE /\ files' = files
            /\ call' = [call EXCEPT ![c] = AfterWrite(call[c], fail)]
    /\ written' = IF fail = "none"
                  THEN [written EXCEPT ![call[c].path] = @ \cup {call[c].data}]
                  ELSE written
    /\ UNCHANGED <<now, started, env>>

\* What the path holds once the text has been written through the open file:
\* the text, if the file is still as it was opened; nothing, if the file was
\* removed meanwhile (the text went to the unlinked file); the text or
\* unparseable content, if another write has put text there meanwhile (the
\* longer text's end stays behind the shorter one)
Written(file, text) ==
    IF file = Partial THEN {text}
    ELSE IF file = NoFile THEN {NoFile}
    ELSE {text, Garbage}

\* Line 1197: fs.writeFile settles, with the text written or with a failure
\* half-way (a full disk, say)
Write(c, fail) ==
    /\ call[c].pc = "writing"
    /\ IF fail = "none"
       THEN \E file \in Written(files[call[c].path], call[c].text) :
               files' = [files EXCEPT ![call[c].path] = file]
       ELSE files' = files
    /\ call' = [call EXCEPT ![c] = AfterWrite(call[c], fail)]
    /\ UNCHANGED <<now, written, started, env>>

\* The caller takes the settled result; the slot is free again
Settle(c) ==
    /\ call[c].pc = "done"
    /\ call' = [call EXCEPT ![c] = Idle]
    /\ UNCHANGED <<now, files, written, started, env>>

Tick ==
    /\ now < MaxTime
    /\ now' = now + 1
    /\ UNCHANGED <<files, written, call, started, env>>

Init ==
    /\ now = 0
    /\ files \in [Paths -> FoundFiles]
    /\ written = [p \in Paths |->
                     IF files[p] = JsonText(Obj([storedAt |-> Num(0), body |-> Str("a")]))
                     THEN {Str("a")} ELSE {}]
    /\ call = [c \in Slots |-> Idle]
    /\ started = 0
    /\ env = CacheEnv
    /\ rOptions = Undefined
    /\ rResolved = Undefined
    /\ op = Undefined

Next ==
    \/ \E c \in Slots, url \in Urls, options \in CallOptions :
          Start(c, url, options) /\ UNCHANGED <<resolveVars, clientVars>>
    \/ \E c \in Slots : Read(c) /\ UNCHANGED <<resolveVars, clientVars>>
    \/ \E c \in Slots : Rm(c) /\ UNCHANGED <<resolveVars, clientVars>>
    \/ \E c \in Slots, resp \in Responses :
          Fetch(c, resp) /\ UNCHANGED <<resolveVars, clientVars>>
    \/ \E c \in Slots, fail \in {"none", "mkdir", "open"} :
          Truncate(c, fail) /\ UNCHANGED <<resolveVars, clientVars>>
    \/ \E c \in Slots, fail \in {"none", "writeFile"} :
          Write(c, fail) /\ UNCHANGED <<resolveVars, clientVars>>
    \/ \E c \in Slots : Settle(c) /\ UNCHANGED <<resolveVars, clientVars>>
    \/ Tick /\ UNCHANGED <<resolveVars, clientVars>>

Spec == Init /\ [][Next]_vars

(***************************************************************************)
(* Properties of fetchJsonWithCache, checked under Spec.                   *)
(***************************************************************************)
\* Call c took the step
Stepped(c) == call'[c] # call[c]

\* The file call c's key maps to
FileOf(c) == files[call[c].path]

\* The file holds an entry readCacheEntry accepts: an object with a numeric storedAt
IsEntry(file) ==
    /\ file.f = "json"
    /\ file.v.t = "object"
    /\ TypeOf(Get(file.v, "storedAt")) = "number"

StoredAt(file) == Get(file.v, "storedAt").n
BodyOf(file)   == Get(file.v, "body")

\* A file the lookup cannot use: not JSON, or JSON without a numeric storedAt
Unusable(file) == file # NoFile /\ ~IsEntry(file)

\* The TTLs a call may resolve to in Spec
SpecTtls == {resolveCacheOptions(o, CacheEnv).ttlMs.n : o \in CallOptions}

\* C1 (as claimed): with caching enabled, a lookup that finds an entry stored by
\* an earlier call, with now - storedAt <= ttlMs, ends the call with the stored
\* body and no network request, whatever JSON value the body is.
C1_HitReturnsStoredBody ==
    [][\A c \in Slots :
          (/\ call[c].pc = "read"
           /\ Stepped(c)
           /\ IsEntry(FileOf(c))
           /\ now - StoredAt(FileOf(c)) <= call[c].cache.ttlMs.n)
          => /\ call'[c].pc = "done"
             /\ call'[c].result = Return(BodyOf(FileOf(c)))
             /\ call'[c].reqs = 0]_vars

\* C2: a lookup at storedAt + ttlMs - 1 returns the entry's body and leaves the
\* file in place; a lookup at storedAt + ttlMs + 1 removes the file and returns
\* null (the call goes on to the network).
C2_TtlBoundary ==
    [][\A c \in Slots :
          /\ (/\ call[c].pc = "read"
              /\ Stepped(c)
              /\ IsEntry(FileOf(c)))
             => LET T   == StoredAt(FileOf(c))
                    ttl == call[c].cache.ttlMs.n
                IN  /\ now = T + ttl - 1
                       => /\ call'[c].cached = BodyOf(FileOf(c))
                          /\ files' = files
                    /\ now = T + ttl + 1
                       => call'[c].pc = "rm"
          /\ (call[c].pc = "rm" /\ Stepped(c))
             => /\ files'[call[c].path] = NoFile
                /\ call'[c].cached = Null
                /\ call'[c].pc = "fetch"]_vars

\* C2's case: a lookup made at storedAt + ttlMs + 1 is about to remove the file
C2_Witness ==
    \E c \in Slots :
        /\ call[c].pc = "rm"
        /\ IsEntry(FileOf(c))
        /\ now = StoredAt(FileOf(c)) + call[c].cache.ttlMs.n + 1

\* C3 (as claimed): a lookup that finds a file it cannot use returns null and
\* the file is gone when it returns.
C3_UnusableFileRemoved ==
    [][\A c \in Slots :
          /\ (call[c].pc = "read" /\ Stepped(c) /\ Unusable(FileOf(c)))
             => \/ call'[c].pc = "rm"
                \/ /\ call'[c].cached = Null
                   /\ files'[call[c].path] = NoFile
          /\ (call[c].pc = "rm" /\ Stepped(c))
             => /\ call'[c].cached = Null
                /\ files'[call[c].path] = NoFile]_vars

\* C4: once the body is fetched, the call returns it whether or not
\* ensureCacheDir and writeCacheEntry succeed; it never ends with an error.
C4_WriteFailureSwallowed ==
    [][\A c \in Slots :
          (call[c].pc \in {"write", "writing"} /\ Stepped(c))
          => \/ /\ call'[c].pc = "done"
                /\ call'[c].result = Return(call[c].data)
             \/ /\ call[c].pc = "write"
                /\ call'[c].pc = "writing"
                /\ call'[c].data = call[c].data]_vars

\* C4's case: the only call made so far fetched a body and returned it, and no
\* file was written
C4_Witness ==
    \E c \in Slots :
        /\ started = 1
        /\ call[c].pc = "done"
        /\ call[c].cache.enabled.b
        /\ call[c].reqs = 1
        /\ call[c].result = Return(call[c].data)
        /\ call[c].response # NoResponse
        /\ FileOf(c) = NoFile

\* C5: a call with enabled = false never looks up, never changes a cache file
\* and issues exactly one request.
C5_DisabledTouchesNoFile ==
    [][\A c \in Slots :
          (Stepped(c) /\ call'[c].pc # "idle" /\ ~call'[c].cache.enabled.b)
          => /\ files' = files
             /\ call'[c].pc \in {"fetch", "done"}
             /\ call'[c].cached = Undefined
             /\ call'[c].reqs = 1]_vars

\* C5's case: a disabled call has returned the network's body while a fresh
\* entry for its key sits in the cache
C5_Witness ==
    \E c \in Slots :
        /\ call[c].pc = "done"
        /\ ~call[c].cache.enabled.b
        /\ call[c].reqs = 1
        /\ call[c].result.kind = "return"
        /\ IsEntry(FileOf(c))
        /\ now - StoredAt(FileOf(c)) <= call[c].cache.ttlMs.n

\* C6: a non-success status ends the call with "Request failed: <statusText>";
\* the only step of a call that puts content in a file follows a success
\* response; and after a failed call made alone, a lookup of its key misses.
C6_FailureWritesNothing ==
    [][\A c \in Slots :
          /\ (Stepped(c) /\ call'[c].response.settled = "fulfilled"
                 /\ ~call'[c].response.ok)
             => /\ files' = files
                /\ call'[c].pc = "done"
                /\ call'[c].result =
                       Throw("Request failed: " \o call'[c].response.statusText)
                /\ (started = 1 /\ call'[c].cache.enabled.b)
                   => \A ttl \in SpecTtls, t \in now..MaxTime :
                         readCacheEntry(files'[call[c].path], ttl, t).value = Null
          /\ (Stepped(c) /\ \E p \in Paths : files'[p] \notin {files[p], NoFile})
             => /\ call[c].response.settled = "fulfilled"
                /\ call[c].response.ok]_vars

\* C6's case: a call with caching enabled has failed on a non-success status
C6_Witness ==
    \E c \in Slots :
        /\ call[c].pc = "done"
        /\ call[c].cache.enabled.b
        /\ call[c].response = Fulfilled(FALSE, "Not Found", Garbage)
        /\ call[c].result = Throw("Request failed: Not Found")

(***************************************************************************)
(* SpecResolve: resolveCacheOptions over explicit options and environments.*)
(***************************************************************************)
ResolveOptions ==
    {Undefined} \cup
    [enabled : {Undefined, Bool(TRUE), Bool(FALSE)},
     ttlMs   : {Undefined, Num(0), Num(1)},
     dir     : {Undefined, Str("/opt/cache")}]

ResolveEnvs ==
    [LOADSTONE_CACHE_TTL_MS :
         {Undefined, Str(""), Str("abc"), Str("0"), Str("-5"), Str("2"), Str("Infinity")},
     LOADSTONE_CACHE_TTL_HOURS : {Undefined, Str("12"), Str("0"), Str("abc")},
     LOADSTONE_CACHE_DIR : {Undefined, Str(""), Str("/var/cache")}]

InitResolve ==
    /\ now = 0
    /\ files = [p \in Paths |-> NoFile]
    /\ written = [p \in Paths |-> {}]
    /\ call = [c \in Slots |-> Idle]
    /\ started = 0
    /\ env \in ResolveEnvs
    /\ rOptions \in ResolveOptions
    /\ rResolved = Undefined
    /\ op = Undefined

\* A caller resolves its options under the current environment
Resolve ==
    /\ rResolved = Undefined
    /\ rResolved' = resolveCacheOptions(rOptions, env)
    /\ UNCHANGED <<rOptions, cacheVars, clientVars>>

\* The next caller passes other options
NextOptions(options) ==
    /\ rResolved # Undefined
    /\ rOptions' = options
    /\ rResolved' = Undefined
    /\ UNCHANGED <<cacheVars, clientVars>>

NextResolve ==
    \/ Resolve
    \/ \E options \in ResolveOptions : NextOptions(options)

SpecResolve == InitResolve /\ [][NextResolve]_vars

\* The explicit option is given
Given(options, field) == OptField(options, field) \notin {Undefined, Null}

\* n * k for a number that may be NaN or Infinity
Times(v, k) == IF IsFinite(v) THEN Num(v.n * k) ELSE v

\* The environment value is a positive finite number
PositiveFinite(v) ==
    /\ v # Undefined
    /\ IsFinite(NumberOf(v.s))
    /\ NumberOf(v.s).n > 0

\* C7 (as claimed): each setting resolves to the explicit option when given,
\* otherwise to the value of its environment variable when one is set,
\* otherwise to the default. No environment variable exists for enabled.
C7_ExplicitEnvDefault ==
    rResolved # Undefined =>
      /\ rResolved.enabled =
           IF Given(rOptions, "enabled") THEN rOptions.enabled ELSE Bool(TRUE)
      /\ rResolved.ttlMs =
           IF Given(rOptions, "ttlMs") THEN rOptions.ttlMs
           ELSE IF env.LOADSTONE_CACHE_TTL_MS # Undefined
           THEN NumberOf(env.LOADSTONE_CACHE_TTL_MS.s)
           ELSE IF env.LOADSTONE_CACHE_TTL_HOURS # Undefined
           THEN Times(NumberOf(env.LOADSTONE_CACHE_TTL_HOURS.s), 3600000)
           ELSE Num(86400000)
      /\ rResolved.dir =
           IF Given(rOptions, "dir") THEN rOptions.dir
           ELSE IF env.LOADSTONE_CACHE_DIR # Undefined
           THEN env.LOADSTONE_CACHE_DIR
           ELSE Str("~/.loadstone/cache")

\* C7 (amended): the explicit option wins when given. Without it, ttlMs is
\* LOADSTONE_CACHE_TTL_MS when that is a positive finite number, else
\* LOADSTONE_CACHE_TTL_HOURS in milliseconds when that is a positive finite
\* number, else 24 hours; dir is LOADSTONE_CACHE_DIR when set, else the
\* default; enabled is true, whatever the environment holds.
C7_Resolution ==
    rResolved # Undefined =>
      /\ rResolved.enabled =
           IF Given(rOptions, "enabled") THEN rOptions.enabled ELSE Bool(TRUE)
      /\ rResolved.ttlMs =
           IF Given(rOptions, "ttlMs") THEN rOptions.ttlMs
           ELSE IF PositiveFinite(env.LOADSTONE_CACHE_TTL_MS)
           THEN NumberOf(env.LOADSTONE_CACHE_TTL_MS.s)
           ELSE IF PositiveFinite(env.LOADSTONE_CACHE_TTL_HOURS)
           THEN Times(NumberOf(env.LOADSTONE_CACHE_TTL_HOURS.s), 3600000)
           ELSE Num(86400000)
      /\ rResolved.dir =
           IF Given(rOptions, "dir") THEN rOptions.dir
           ELSE IF env.LOADSTONE_CACHE_DIR # Undefined
           THEN env.LOADSTONE_CACHE_DIR
           ELSE Str("~/.loadstone/cache")

\* C7's case: no explicit TTL, LOADSTONE_CACHE_TTL_MS set but not a number,
\* and the TTL falls through to LOADSTONE_CACHE_TTL_HOURS
C7_Witness ==
    /\ rResolved # Undefined
    /\ ~Given(rOptions, "ttlMs")
    /\ env.LOADSTONE_CACHE_TTL_MS = Str("abc")
    /\ env.LOADSTONE_CACHE_TTL_HOURS = Str("12")
    /\ rResolved.ttlMs = Num(43200000)

(***************************************************************************)
(* index.ts: strings.                                                      *)
(***************************************************************************)
CharAt(s, i) == SubSeq(s, i, i)

IsSpace(ch) == ch \in {" ", "\n", "\t", "\r"}

\* s.trim()
Trim(s) ==
    LET keep == {i \in 1..Len(s) : ~IsSpace(CharAt(s, i))}
    IN  IF keep = {} THEN ""
        ELSE SubSeq(s, CHOOSE i \in keep : \A j \in keep : i <= j,
                       CHOOSE i \in keep : \A j \in keep : i >= j)

\* haystack.includes(needle)
Includes(haystack, needle) ==
    \E i \in 0..(Len(haystack) - Len(needle)) :
        SubSeq(haystack, i + 1, i + Len(needle)) = needle

\* haystack.startsWith(prefix)
StartsWith(haystack, prefix) ==
    Len(prefix) <= Len(haystack) /\ SubSeq(haystack, 1, Len(prefix)) = prefix

UpperLetters == "ABCDEFGHIJKLMNOPQRSTUVWXYZ"
LowerLetters == "abcdefghijklmnopqrstuvwxyz"

LowerChar(ch) ==
    IF \E i \in 1..26 : CharAt(UpperLetters, i) = ch
    THEN CharAt(LowerLetters, CHOOSE i \in 1..26 : CharAt(UpperLetters, i) = ch)
    ELSE ch

RECURSIVE ToLowerCaseFrom(_, _)
ToLowerCaseFrom(s, i) ==
    IF i > Len(s) THEN "" ELSE LowerChar(CharAt(s, i)) \o ToLowerCaseFrom(s, i + 1)

\* s.toLowerCase()
ToLowerCase(s) == ToLowerCaseFrom(s, 1)

RECURSIVE RemoveAllFrom(_, _, _)
\* s from position i on with every occurrence of pat removed, left to right
RemoveAllFrom(s, pat, i) ==
    IF i > Len(s) THEN ""
    ELSE IF i + Len(pat) - 1 <= Len(s) /\ SubSeq(s, i, i + Len(pat) - 1) = pat
    THEN RemoveAllFrom(s, pat, i + Len(pat))
    ELSE CharAt(s, i) \o RemoveAllFrom(s, pat, i + 1)

\* s.replace(/pat/g, "") for a literal pattern
RemoveAll(s, pat) == RemoveAllFrom(s, pat, 1)

RECURSIVE StripTagsFrom(_, _)
\* s.replace(/<[^>]+>/g, ""): a "<", one or more characters other than ">", a ">"
StripTagsFrom(s, i) ==
    IF i > Len(s) THEN ""
    ELSE LET closes == {j \in (i + 2)..Len(s) :
                          /\ CharAt(s, j) = ">"
                          /\ \A k \in (i + 1)..(j - 1) : CharAt(s, k) # ">"}
         IN  IF CharAt(s, i) = "<" /\ closes # {}
             THEN StripTagsFrom(s, (CHOOSE j \in closes : TRUE) + 1)
             ELSE CharAt(s, i) \o StripTagsFrom(s, i + 1)

StripTags(s) == StripTagsFrom(s, 1)

UnderscoreChar(ch) == IF ch = " " THEN "_" ELSE ch

RECURSIVE SpacesToUnderscoresFrom(_, _)
SpacesToUnderscoresFrom(s, i) ==
    IF i > Len(s) THEN ""
    ELSE UnderscoreChar(CharAt(s, i)) \o SpacesToUnderscoresFrom(s, i + 1)

\* s.replace(/ /g, "_")
SpacesToUnderscores(s) == SpacesToUnderscoresFrom(s, 1)

\* encodeURIComponent of one character, for the characters the model's titles
\* and user names hold
EncodeChar(ch) ==
    CASE ch = " " -> "%20"
      [] ch = "&" -> "%26"
      [] ch = ":" -> "%3A"
      [] ch = "/" -> "%2F"
      [] ch = "?" -> "%3F"
      [] OTHER    -> ch

RECURSIVE EncodeURIComponentFrom(_, _)
EncodeURIComponentFrom(s, i) ==
    IF i > Len(s) THEN ""
    ELSE EncodeChar(CharAt(s, i)) \o EncodeURIComponentFrom(s, i + 1)

EncodeURIComponent(s) == EncodeURIComponentFrom(s, 1)

RECURSIVE Join(_, _)
\* parts.join(sep)
Join(parts, sep) ==
    IF Len(parts) = 0 THEN ""
    ELSE IF Len(parts) = 1 THEN parts[1]
    ELSE parts[1] \o sep \o Join(Tail(parts), sep)

(***************************************************************************)
(* index.ts: the wiki client.                                              *)
(***************************************************************************)
\* An array
Arr(a) == [t |-> "array", a |-> a]

\* The string html, held as the document it parses to: whether the content is
\* wrapped in an element of class mw-parser-output, and that element's (or, if
\* there is none, the body's) child elements in document order
Html(doc) == [t |-> "string", doc |-> doc]

IsNullish(v) == v.t \in {"undefined", "null"}

BASE_URL == "https://runescape.wiki/api.php"

\* A URL with its query parameters, in the order they were appended
Url(base, params) == [base |-> base, params |-> params]

\* response.json(): the parsed body, or a rejection
ResponseJson(resp) == JSONparse(resp.text)

\* getCategoryMembersUrl with the prefix added to every category name
getCategoryMembersUrl_AlwaysPrefix(category, options) ==
    LET limit == IF Truthy(OptField(options, "limit")) THEN options.limit ELSE Num(50)
    IN  [base |-> BASE_URL,
         params |-> <<<<"action", "query">>, <<"format", "json">>,
                      <<"list", "categorymembers">>,
                      <<"cmtitle", "Category:" \o category>>,
                      <<"cmlimit", ToString(limit.n)>>>>]

\* The part of each client function before its try: the request it sends
searchWikiUrl(query) ==
    Url(BASE_URL, <<<<"action", "query">>, <<"list", "search">>,
                    <<"srsearch", query>>, <<"srlimit", "5">>,
                    <<"format", "json">>>>)

getPageUrl(title) ==
    Url(BASE_URL, <<<<"action", "parse">>, <<"format", "json">>,
                    <<"prop", "text|properties|displaytitle|revid">>,
                    <<"page", title>>, <<"redirects", "1">>>>)

getCategoryMembersUrl(category, options) ==
    LET limit == IF Truthy(OptField(options, "limit")) THEN options.limit ELSE Num(50)
    IN  Url(BASE_URL, <<<<"action", "query">>, <<"format", "json">>,
                        <<"list", "categorymembers">>,
                        <<"cmtitle", IF StartsWith(category, "Category:")
                                     THEN category
                                     ELSE "Category:" \o category>>,
                        <<"cmlimit", ToString(limit.n)>>>>)

\* A search hit the map callback of searchWiki can process without a TypeError
SearchHitOk(r) ==
    /\ ~IsNullish(r)
    /\ Get(r, "title").t = "string"
    /\ Get(r, "snippet").t \in {"undefined", "null", "string"}

SearchResultOf(r) ==
    Obj([title   |-> Get(r, "title"),
         snippet |-> IF IsNullish(Get(r, "snippet")) THEN Undefined
                     ELSE Str(StripTags(Get(r, "snippet").s)),
         url     |-> Str("https://runescape.wiki/w/" \o
                         EncodeURIComponent(SpacesToUnderscores(Get(r, "title").s)))])

\* The try block of searchWiki, from the settled fetch on
searchWikiTry(resp) ==
    IF resp = Rejected THEN Throw("TypeError: fetch failed")
    ELSE IF ~resp.ok THEN Throw("Wiki API error: " \o resp.statusText)
    ELSE IF ~ResponseJson(resp).ok THEN Throw("SyntaxError")
    ELSE LET data == ResponseJson(resp).v
         IN  IF IsNullish(data) THEN Throw("TypeError")
             ELSE LET query   == Get(data, "query")
                      search  == IF IsNullish(query) THEN Undefined
                                 ELSE Get(query, "search")
                      results == IF Truthy(search) THEN search ELSE Arr(<<>>)
                  IN  IF results.t # "array" THEN Throw("TypeError")
                      ELSE IF \E i \in DOMAIN results.a : ~SearchHitOk(results.a[i])
                      THEN Throw("TypeError")
                      ELSE Return(Arr([i \in DOMAIN results.a |->
                                          SearchResultOf(results.a[i])]))

\* searchWiki without its catch
searchWiki_NoCatch(resp) == searchWikiTry(resp)

searchWiki(resp) ==
    IF searchWikiTry(resp).kind = "throw" THEN Return(Arr(<<>>))
    ELSE searchWikiTry(resp)

\* The try block of getCategoryMembers
getCategoryMembersTry(resp) ==
    IF resp = Rejected THEN Throw("TypeError: fetch failed")
    ELSE IF ~resp.ok THEN Throw("Wiki API error: " \o resp.statusText)
    ELSE IF ~ResponseJson(resp).ok THEN Throw("SyntaxError")
    ELSE LET data == ResponseJson(resp).v
         IN  IF IsNullish(data) THEN Throw("TypeError")
             ELSE LET query   == Get(data, "query")
                      cm      == IF IsNullish(query) THEN Undefined
                                 ELSE Get(query, "categorymembers")
                      members == IF Truthy(cm) THEN cm ELSE Arr(<<>>)
                  IN  IF members.t # "array" THEN Throw("TypeError")
                      ELSE IF \E i \in DOMAIN members.a : IsNullish(members.a[i])
                      THEN Throw("TypeError")
                      ELSE Return(Arr([i \in DOMAIN members.a |->
                                          Get(members.a[i], "title")]))

\* getCategoryMembers without the check of the response's status
getCategoryMembers_NoOkCheck(resp) ==
    LET res == IF resp = Rejected THEN resp ELSE [resp EXCEPT !.ok = TRUE]
    IN  IF getCategoryMembersTry(res).kind = "throw" THEN Return(Arr(<<>>))
        ELSE getCategoryMembersTry(res)

getCategoryMembers(resp) ==
    IF getCategoryMembersTry(resp).kind = "throw" THEN Return(Arr(<<>>))
    ELSE getCategoryMembersTry(resp)

(***************************************************************************)
(* index.ts: parseWikiContent. The document is held as the tree cheerio    *)
(* builds from it: a node is an element with its tag, its class and its    *)
(* child nodes, or a text node (tag "#text") with its text.                *)
(***************************************************************************)
Text(s) == [tag |-> "#text", class |-> "", text |-> s, kids |-> <<>>]

Elem(tag, class, kids) == [tag |-> tag, class |-> class, text |-> "", kids |-> kids]

\* An element whose content is a single piece of text
Node(tag, class, text) == Elem(tag, class, <<Text(text)>>)

\* Lines 130-135: the elements removed before parsing
IsNoise(n) ==
    \/ n.tag \in {"style", "script", "noscript"}
    \/ n.class \in {"navbox", "mw-editsection", "magnify"}

\* Removal that reaches only the node's own children
Clean_TopLevelOnly(n) == [n EXCEPT !.kids = SelectSeq(n.kids, LAMBDA k : ~IsNoise(k))]

RECURSIVE Clean(_), CleanAll(_, _)
\* The node once $(selector).remove() has run for every selector: the noise
\* elements are gone at every depth
Clean(n) == [n EXCEPT !.kids = CleanAll(n.kids, 1)]

CleanAll(kids, i) ==
    IF i > Len(kids) THEN <<>>
    ELSE IF IsNoise(kids[i]) THEN CleanAll(kids, i + 1)
    ELSE <<Clean(kids[i])>> \o CleanAll(kids, i + 1)

RECURSIVE TextOf(_), TextOfAll(_, _)
\* $(el).text(): the text nodes under the element, in document order
TextOf(n) == IF n.tag = "#text" THEN n.text ELSE TextOfAll(n.kids, 1)

TextOfAll(kids, i) ==
    IF i > Len(kids) THEN "" ELSE TextOf(kids[i]) \o TextOfAll(kids, i + 1)

RECURSIVE Find(_, _), FindAll(_, _, _)
\* $(el).find(tags): the descendants with one of the tags, in document order
Find(n, tags) == FindAll(n.kids, tags, 1)

FindAll(kids, tags, i) ==
    IF i > Len(kids) THEN <<>>
    ELSE (IF kids[i].tag \in tags THEN <<kids[i]>> ELSE <<>>)
            \o Find(kids[i], tags) \o FindAll(kids, tags, i + 1)

\* $(el).children(): the child elements, text nodes left out
Children(n) == SelectSeq(n.kids, LAMBDA k : k.tag # "#text")

RECURSIVE CollapseFrom(_, _)
\* s.replace(/\s+/g, " ") from position i on
CollapseFrom(s, i) ==
    IF i > Len(s) THEN ""
    ELSE IF IsSpace(CharAt(s, i))
    THEN (IF i > 1 /\ IsSpace(CharAt(s, i - 1)) THEN "" ELSE " ") \o CollapseFrom(s, i + 1)
    ELSE CharAt(s, i) \o CollapseFrom(s, i + 1)

CollapseSpaces(s) == CollapseFrom(s, 1)

\* The character U+2022 that starts a list line, written here as one
\* ASCII character
Bullet == "*"

\* Lines 147-159: a table, one line per row that has cells
TableText(n) ==
    LET rows == Find(n, {"tr"})
        cells(tr) == Find(tr, {"th", "td"})
        line(tr) == IF Len(cells(tr)) > 0
                    THEN Join([c \in DOMAIN cells(tr) |->
                                  CollapseSpaces(Trim(TextOf(cells(tr)[c])))], " | ") \o "\n"
                    ELSE ""
    IN  "\n" \o Join([r \in DOMAIN rows |-> line(rows[r])], "")

\* Lines 162-168: a list, one line per li child
ListText(n) ==
    LET items == SelectSeq(Children(n), LAMBDA k : k.tag = "li")
    IN  "\n" \o Join([i \in DOMAIN items |->
                         Bullet \o " " \o Trim(TextOf(items[i])) \o "\n"], "")

\* Lines 143-171
getText(n) ==
    IF n.tag = "table" THEN TableText(n)
    ELSE IF n.tag \in {"ul", "ol"} THEN ListText(n)
    ELSE Trim(TextOf(n))

\* Line 175: the children of .mw-parser-output or, without one, of the root:
\* cheerio puts the content in one html element, the root's only child
RootChildren(doc) ==
    IF doc.wrapped THEN Children(Clean(Elem("div", "mw-parser-output", doc.nodes)))
    ELSE <<Clean(Elem("html", "", doc.nodes))>>

\* Lines 189 and 193: heading text without its edit links
HeadingText(n) ==
    Trim(RemoveAll(RemoveAll(TextOf(n), " [edit | edit source]"), " [edit]"))

RECURSIVE DecimalFrom(_, _, _)
\* The number a string of digits writes, read from position i with acc so far
DecimalFrom(s, i, acc) ==
    IF i > Len(s) THEN acc
    ELSE DecimalFrom(s, i + 1,
            10 * acc + (CHOOSE d \in 0..9 : CharAt("0123456789", d + 1) = CharAt(s, i)))

\* The leading digits of a numeral of up to ten digits, and its last five
HighPart(key) ==
    IF Len(key) > 5 THEN DecimalFrom(SubSeq(key, 1, Len(key) - 5), 1, 0) ELSE 0

LowPart(key) ==
    DecimalFrom(SubSeq(key, IF Len(key) > 5 THEN Len(key) - 4 ELSE 1, Len(key)), 1, 0)

\* The key is an array index: the canonical numeral of an integer in
\* 0 .. 2^32 - 2 = 4294967294. An object lists such keys first, in
\* ascending order
IsIndexKey(key) ==
    /\ Len(key) \in 1..10
    /\ \A i \in 1..Len(key) : \E d \in 1..10 : CharAt("0123456789", d) = CharAt(key, i)
    /\ (Len(key) > 1 => CharAt(key, 1) # "0")
    /\ \/ HighPart(key) < 42949
       \/ HighPart(key) = 42949 /\ LowPart(key) <= 67294

\* Whether key a comes before a new key b in Object.keys
KeyBefore(a, b) ==
    IF IsIndexKey(b)
    THEN /\ IsIndexKey(a)
         /\ \/ HighPart(a) < HighPart(b)
            \/ HighPart(a) = HighPart(b) /\ LowPart(a) < LowPart(b)
    ELSE TRUE

\* sections[key] = text: a key already there keeps its place; a new index key
\* goes among the index keys, any other new key goes last
SetKey(sections, key, text) ==
    IF \E i \in DOMAIN sections : sections[i].key = key
    THEN [i \in DOMAIN sections |->
             IF sections[i].key = key THEN [key |-> key, text |-> text]
             ELSE sections[i]]
    ELSE SelectSeq(sections, LAMBDA e : KeyBefore(e.key, key))
            \o <<[key |-> key, text |-> text]>>
            \o SelectSeq(sections, LAMBDA e : ~KeyBefore(e.key, key))

\* SaveSection without the test for an empty text
SaveSection_KeepsEmpty(st) ==
    IF Len(st.content) > 0
    THEN SetKey(st.sections, st.cur, Trim(Join(st.content, "\n")))
    ELSE st.sections

\* Lines 182-185 and 203-206: save the section being collected
SaveSection(st) ==
    IF Len(st.content) > 0 /\ Trim(Join(st.content, "\n")) # ""
    THEN SetKey(st.sections, st.cur, Trim(Join(st.content, "\n")))
    ELSE st.sections

\* Lines 177-200: one child element
VisitChild(st, n) ==
    IF n.tag = "h2"
    THEN [sections |-> SaveSection(st), cur |-> HeadingText(n), content |-> <<>>]
    ELSE IF n.tag \in {"h3", "h4"}
    THEN [st EXCEPT !.content = Append(st.content, "\n=== " \o HeadingText(n) \o " ===")]
    ELSE IF getText(n) # ""
    THEN [st EXCEPT !.content = Append(st.content, getText(n))]
    ELSE st

RECURSIVE VisitChildren(_, _, _)
VisitChildren(st, children, i) ==
    IF i > Len(children) THEN st
    ELSE VisitChildren(VisitChild(st, children[i]), children, i + 1)

\* The sections as a sequence of key and text, in the order of Object.keys
parseWikiContent(html) ==
    SaveSection(VisitChildren([sections |-> <<>>, cur |-> "Summary", content |-> <<>>],
                              RootChildren(html.doc), 1))

(***************************************************************************)
(* index.ts: getPage.                                                      *)
(***************************************************************************)
Banner(sec) == "\n=== " \o sec.key \o " ===\n" \o sec.text \o "\n"

\* PageText with the last matching section selected instead of the first
PageText_LastMatch(sections, options) ==
    LET keys == [i \in DOMAIN sections |-> sections[i].key]
        section == OptField(options, "section")
    IN  IF Truthy(section)
        THEN LET hits == {i \in DOMAIN sections :
                             Includes(ToLowerCase(keys[i]), ToLowerCase(section.s))}
                 last == CHOOSE i \in hits : \A j \in hits : j <= i
             IN  IF hits # {} /\ keys[last] # ""
                 THEN Banner(sections[last])
                 ELSE "Section '" \o section.s \o "' not found. Available sections: "
                         \o Join(keys, ", ")
        ELSE Trim(Join([i \in DOMAIN sections |-> Banner(sections[i])], ""))

\* Lines 89-110: text mode, from the parsed sections
PageText(sections, options) ==
    LET keys == [i \in DOMAIN sections |-> sections[i].key]
        section == OptField(options, "section")
    IN  IF Truthy(section)
        THEN LET hits == {i \in DOMAIN sections :
                             Includes(ToLowerCase(keys[i]), ToLowerCase(section.s))}
                 first == CHOOSE i \in hits : \A j \in hits : i <= j
             IN  IF hits # {} /\ keys[first] # ""
                 THEN Banner(sections[first])
                 ELSE "Section '" \o section.s \o "' not found. Available sections: "
                         \o Join(keys, ", ")
        ELSE Trim(Join([i \in DOMAIN sections |-> Banner(sections[i])], ""))

\* The try block of getPage
getPageTry(options, resp) ==
    IF resp = Rejected THEN Throw("TypeError: fetch failed")
    ELSE IF ~resp.ok THEN Throw("Wiki API error: " \o resp.statusText)
    ELSE IF ~ResponseJson(resp).ok THEN Throw("SyntaxError")
    ELSE LET data == ResponseJson(resp).v
         IN  IF IsNullish(data) THEN Throw("TypeError")
             ELSE IF Truthy(Get(data, "error")) THEN Return(Null)
             ELSE LET parseData == Get(data, "parse")
                      text == IF IsNullish(parseData) THEN Undefined
                              ELSE Get(parseData, "text")
                      html == IF IsNullish(text) THEN Undefined ELSE Get(text, "*")
                  IN  IF IsNullish(parseData) \/ IsNullish(text) THEN Throw("TypeError")
                      ELSE IF Truthy(OptField(options, "json"))
                      THEN Return(Obj(("extract" :> html) @@ parseData.p))
                      ELSE IF html.t # "string" THEN Throw("TypeError")
                      ELSE Return(Str(PageText(parseWikiContent(html), options)))

\* getPage without the check of the response's status
getPage_NoOkCheck(options, resp) ==
    LET res == IF resp = Rejected THEN resp ELSE [resp EXCEPT !.ok = TRUE]
    IN  IF getPageTry(options, res).kind = "throw" THEN Return(Null)
        ELSE getPageTry(options, res)

getPage(options, resp) ==
    IF getPageTry(options, resp).kind = "throw" THEN Return(Null)
    ELSE getPageTry(options, resp)

(***************************************************************************)
(* index.ts: getRSProfile.                                                 *)
(***************************************************************************)
SkillNameSeq ==
    <<"Attack", "Defence", "Strength", "Constitution", "Ranged", "Prayer",
      "Magic", "Cooking", "Woodcutting", "Fletching", "Fishing", "Firemaking",
      "Crafting", "Smithing", "Mining", "Herblore", "Agility", "Thieving",
      "Slayer", "Farming", "Runecrafting", "Hunter", "Construction",
      "Summoning", "Dungeoneering", "Divination", "Invention", "Archaeology",
      "Necromancy">>

\* String(v), as a property key and inside a template literal
StringOf(v) ==
    CASE v.t = "number" /\ IsFinite(v) -> ToString(v.n)
      [] v = NaN                       -> "NaN"
      [] v = Infinity                  -> "Infinity"
      [] v.t = "string"                -> v.s
      [] OTHER                         -> v.t

\* SKILL_NAMES with its names one id too high: 1 = Attack ... 29 = Necromancy
SKILL_NAMES_Shifted(id) ==
    LET key  == StringOf(id)
        hits == {i \in DOMAIN SkillNameSeq : ToString(i) = key}
    IN  IF hits = {} THEN Undefined ELSE Str(SkillNameSeq[CHOOSE i \in hits : TRUE])

\* SKILL_NAMES[id]: the table's keys are the decimal numerals of 0..28
SKILL_NAMES(id) ==
    LET key  == StringOf(id)
        hits == {i \in DOMAIN SkillNameSeq : ToString(i - 1) = key}
    IN  IF hits = {} THEN Undefined ELSE Str(SkillNameSeq[CHOOSE i \in hits : TRUE])

\* SKILL_NAMES[sv.id] || `Unknown(${sv.id})`
SkillKey(sv) ==
    IF Truthy(SKILL_NAMES(Get(sv, "id"))) THEN SKILL_NAMES(Get(sv, "id")).s
    ELSE "Unknown(" \o StringOf(Get(sv, "id")) \o ")"

\* The skills object after the forEach: a later row overwrites an earlier one
\* of the same name
SkillsOf(skillvalues) ==
    LET rows == skillvalues.a
        keys == {SkillKey(rows[i]) : i \in DOMAIN rows}
        last(k) == CHOOSE i \in DOMAIN rows :
                      /\ SkillKey(rows[i]) = k
                      /\ \A j \in DOMAIN rows : SkillKey(rows[j]) = k => j <= i
    IN  Obj([k \in keys |-> Get(rows[last(k)], "level")])

QuestOf(q) ==
    Obj([title       |-> Get(q, "title"),
         status      |-> Get(q, "status"),
         questPoints |-> Get(q, "questPoints"),
         members     |-> Get(q, "members")])

profileUrl(username) ==
    "https://apps.runescape.com/runemetrics/profile/profile?user="
        \o EncodeURIComponent(username) \o "&skillvalues"

questsUrl(username) ==
    "https://apps.runescape.com/runemetrics/quests?user="
        \o EncodeURIComponent(username)

\* The try block of getRSProfile from the point where Promise.all settles:
\* it rejects as soon as one request is rejected, whatever the other has done
getRSProfileTry(profileRes, questsRes) ==
    IF profileRes = Rejected \/ questsRes = Rejected
    THEN Throw("TypeError: fetch failed")
    ELSE IF ~profileRes.ok
    THEN Throw("RuneMetrics profile error: " \o profileRes.statusText)
    ELSE IF ~ResponseJson(profileRes).ok THEN Throw("SyntaxError")
    ELSE LET profileData == ResponseJson(profileRes).v
         IN  IF IsNullish(profileData) THEN Throw("TypeError")
             ELSE IF Truthy(Get(profileData, "error")) THEN Return(Null)
             ELSE IF questsRes.ok /\ ~ResponseJson(questsRes).ok
             THEN Throw("SyntaxError")
             ELSE LET questsData  == IF questsRes.ok THEN ResponseJson(questsRes).v
                                     ELSE Obj([quests |-> Arr(<<>>)])
                      skillvalues == Get(profileData, "skillvalues")
                      questsField == IF IsNullish(questsData) THEN Undefined
                                     ELSE Get(questsData, "quests")
                      quests      == IF Truthy(questsField) THEN questsField
                                     ELSE Arr(<<>>)
                  IN  IF skillvalues.t # "array" THEN Throw("TypeError")
                      ELSE IF \E i \in DOMAIN skillvalues.a : IsNullish(skillvalues.a[i])
                      THEN Throw("TypeError")
                      ELSE IF IsNullish(questsData) THEN Throw("TypeError")
                      ELSE IF quests.t # "array" THEN Throw("TypeError")
                      ELSE IF \E i \in DOMAIN quests.a : IsNullish(quests.a[i])
                      THEN Throw("TypeError")
                      ELSE Return(Obj(
                              [name             |-> Get(profileData, "name"),
                               combatLevel      |-> Get(profileData, "combatlevel"),
                               totalSkill       |-> Get(profileData, "totalskill"),
                               totalXp          |-> Get(profileData, "totalxp"),
                               questsComplete   |-> Get(profileData, "questscomplete"),
                               questsStarted    |-> Get(profileData, "questsstarted"),
                               questsNotStarted |-> Get(profileData, "questsnotstarted"),
                               skills           |-> SkillsOf(skillvalues),
                               quests           |-> Arr([i \in DOMAIN quests.a |->
                                                            QuestOf(quests.a[i])]),
                               raw              |-> profileData]))

\* getRSProfile with a quest request that is not tolerated: a non-success
\* status of the quest request fails the whole call
getRSProfile_StrictQuests(profileRes, questsRes) ==
    IF getRSProfileTry(profileRes, questsRes).kind = "throw" THEN Return(Null)
    ELSE IF ~questsRes.ok THEN Return(Null)
    ELSE getRSProfileTry(profileRes, questsRes)

\* getRSProfile without the check of the stats response's status
getRSProfile_NoOkCheck(profileRes, questsRes) ==
    LET res == IF profileRes = Rejected THEN profileRes
               ELSE [profileRes EXCEPT !.ok = TRUE]
    IN  IF getRSProfileTry(res, questsRes).kind = "throw" THEN Return(Null)
        ELSE getRSProfileTry(res, questsRes)

getRSProfile(profileRes, questsRes) ==
    IF getRSProfileTry(profileRes, questsRes).kind = "throw" THEN Return(Null)
    ELSE getRSProfileTry(profileRes, questsRes)

(***************************************************************************)
(* The client operations as a caller sees them: a call starts its          *)
(* requests, each request settles on its own, the function resumes once    *)
(* what it awaits has settled, and the caller takes the result.            *)
(***************************************************************************)
Queries    == {"whip", "Abyssal whip"}
Titles     == {"Abyssal whip"}
Categories == {"Quests", "Category:Quests", "category:Quests", "Category:", ""}
Usernames  == {"Zezima", "a b"}

SectionFilters  == {"stats", "drops", "DROP", "s", ""}
PageOptions     == {Undefined, [json |-> Bool(TRUE), section |-> Undefined]}
                      \cup {[json |-> Undefined, section |-> Str(f)] : f \in SectionFilters}
                      \cup {[json |-> Bool(FALSE), section |-> Str("Drop")]}
\* limit as the command passes it on: parseInt of its --limit text
CategoryOptions == {Undefined, [limit |-> Undefined], [limit |-> Num(10)],
                    [limit |-> Num(1)], [limit |-> Num(0)], [limit |-> NaN]}

Ok(body) == Fulfilled(TRUE, "OK", JsonText(body))

\* What any request may end with, whatever the endpoint
Failures ==
    {Rejected, Fulfilled(FALSE, "Internal Server Error", Garbage),
     Fulfilled(TRUE, "OK", Garbage), Ok(Null), Ok(Str("maintenance"))}

SearchHit == Obj([title |-> Str("Abyssal whip"), snippet |-> Str("A <span>whip</span>")])

SearchResponses ==
    Failures \cup
    {Ok(Obj([query |-> Obj([search |-> Arr(<<SearchHit>>)])])),
     Ok(Obj([query |-> Obj([search |-> Arr(<<SearchHit, Null>>)])])),
     Ok(Obj([query |-> Obj([search |-> Arr(<<Obj([snippet |-> Str("x")])>>)])])),
     Ok(Obj([query |-> Obj([search |-> Str("none")])])),
     Ok(Obj([batchcomplete |-> Str("")])),
     Fulfilled(FALSE, "Not Found",
               JsonText(Obj([query |-> Obj([search |-> Arr(<<SearchHit>>)])])))}

CategoryResponses ==
    Failures \cup
    {Ok(Obj([query |-> Obj([categorymembers |->
                Arr(<<Obj([title |-> Str("Cook's Assistant")])>>)])])),
     Ok(Obj([query |-> Obj([categorymembers |->
                Arr(<<Obj([title |-> Str("Cook's Assistant")]),
                      Obj([title |-> Str("Sheep Shearer")])>>)])])),
     Ok(Obj([query |-> Obj([categorymembers |-> Arr(<<Null>>)])])),
     Ok(Obj([query |-> Obj([categorymembers |-> Num(0)])])),
     Ok(Obj([error |-> Obj([code |-> Str("invalidcategory")])])),
     Fulfilled(FALSE, "Not Found",
               JsonText(Obj([query |-> Obj([categorymembers |->
                   Arr(<<Obj([title |-> Str("Cook's Assistant")])>>)])])))}

PageDoc ==
    [wrapped |-> TRUE,
     nodes   |-> <<Node("p", "", "A whip."), Node("h2", "", "Stats [edit]"),
                   Node("p", "", "Slash +82"), Node("div", "navbox", "Weapons")>>]

\* A page with three sections after its summary, two of them about drops
DropsDoc ==
    [wrapped |-> TRUE,
     nodes   |-> <<Node("p", "", "A monster."),
                   Node("h2", "", "Drop sources"), Node("p", "", "Drops"),
                   Node("h2", "", "Stats"), Node("p", "", "Stats"),
                   Node("h2", "", "Rare drop table"), Node("p", "", "Rare")>>]

DropsBody ==
    Obj([parse |-> Obj([title |-> Str("Test Page"),
                        text |-> Obj(("*" :> Html(DropsDoc)))])])

PageBody ==
    Obj([parse |-> Obj([title |-> Str("Abyssal whip"), revid |-> Num(7),
                        text |-> Obj(("*" :> Html(PageDoc)))])])

PageResponses ==
    Failures \cup
    {Ok(PageBody), Ok(DropsBody),
     Fulfilled(FALSE, "Server Error", JsonText(PageBody)),
     Ok(Obj(("error" :> Obj([code |-> Str("missingtitle")])) @@ PageBody.p)),
     Ok(Obj([parse |-> Obj([title |-> Str("Abyssal whip")])])),
     Ok(Obj([parse |-> Obj([text |-> Obj([html |-> Str("")])])])),
     Ok(Obj([error |-> Obj([code |-> Str("missingtitle")])])),
     Ok(Obj([warnings |-> Str("")]))}

SkillRow(id, level) == Obj([id |-> Num(id), level |-> Num(level), xp |-> Num(0), rank |-> Num(1)])

StatsBody(skillvalues) ==
    Obj([name |-> Str("Zezima"), combatlevel |-> Num(138), totalskill |-> Num(2898),
         totalxp |-> Num(5400), questscomplete |-> Num(2), questsstarted |-> Num(1),
         questsnotstarted |-> Num(0), skillvalues |-> skillvalues])

\* Skill ids at and around the ends of the table, and levels
SkillIds    == {0 - 1, 0, 1, 27, 28, 29, 99}
SkillLevels == {1, 99}
SkillRows   == {SkillRow(id, level) : id \in SkillIds, level \in SkillLevels}

\* Stats bodies of the documented shape, without an error field: a list of
\* three rows, and every list of at most two rows, repeated ids included
GoodStats ==
    {StatsBody(Arr(<<SkillRow(28, 99), SkillRow(0, 50), SkillRow(99, 1)>>)),
     StatsBody(Arr(<<>>))}
      \cup {StatsBody(Arr(<<r>>)) : r \in SkillRows}
      \cup {StatsBody(Arr(<<r1, r2>>)) : r1 \in SkillRows, r2 \in SkillRows}

\* The error codes RuneMetrics reports in place of a profile
ErrorCodes == {"PROFILE_PRIVATE", "NO_PROFILE"}

StatsResponses ==
    Failures \cup
    {Ok(b) : b \in GoodStats} \cup
    {Ok(Obj([error |-> Str(e)])) : e \in ErrorCodes} \cup
    {Ok(Obj([error |-> Str("PROFILE_PRIVATE"), name |-> Str("Zezima"),
             skillvalues |-> Arr(<<SkillRow(0, 50)>>)])),
     Fulfilled(FALSE, "Internal Server Error",
               JsonText(StatsBody(Arr(<<SkillRow(0, 50)>>)))),
     Ok(StatsBody(Arr(<<Null>>))),
     Ok(Obj([name |-> Str("Zezima")]))}

Quest == Obj([title |-> Str("Cook's Assistant"), status |-> Str("COMPLETED"),
              questPoints |-> Num(1), members |-> Bool(FALSE)])

QuestsResponses ==
    Failures \cup
    {Ok(Obj([quests |-> Arr(<<Quest>>)])),
     Ok(Obj([quests |-> Arr(<<Null>>)])),
     Ok(Obj([quests |-> Str("private")])),
     Ok(Obj([loggedIn |-> Str("false")])),
     Fulfilled(FALSE, "Forbidden", JsonText(Obj([quests |-> Arr(<<Quest>>)])))}

\* A request in flight: where it goes and what it has settled with
Request(url) == [url |-> url, resp |-> NoResponse]

NoOp == [name |-> "", pc |-> "idle", arg |-> "", options |-> Undefined,
         fetches |-> <<>>, result |-> NoResult]

\* The responses the endpoint of the i-th request of the operation may give
ResponsesOf(name, i) ==
    CASE name = "searchWiki"         -> SearchResponses
      [] name = "getPage"            -> PageResponses
      [] name = "getCategoryMembers" -> CategoryResponses
      [] name = "getRSProfile"       -> IF i = 1 THEN StatsResponses
                                        ELSE QuestsResponses

CallSearchWiki(query) ==
    /\ op.pc = "idle"
    /\ op' = [NoOp EXCEPT !.name = "searchWiki", !.pc = "pending", !.arg = query,
                          !.fetches = <<Request(searchWikiUrl(query))>>]
    /\ UNCHANGED <<cacheVars, resolveVars>>

CallGetPage(title, options) ==
    /\ op.pc = "idle"
    /\ op' = [NoOp EXCEPT !.name = "getPage", !.pc = "pending", !.arg = title,
                          !.options = options,
                          !.fetches = <<Request(getPageUrl(title))>>]
    /\ UNCHANGED <<cacheVars, resolveVars>>

CallGetCategoryMembers(category, options) ==
    /\ op.pc = "idle"
    /\ op' = [NoOp EXCEPT !.name = "getCategoryMembers", !.pc = "pending", !.arg = category,
                          !.options = options,
                          !.fetches = <<Request(getCategoryMembersUrl(category, options))>>]
    /\ UNCHANGED <<cacheVars, resolveVars>>

\* Both requests are started before Promise.all is awaited
CallGetRSProfile(username) ==
    /\ op.pc = "idle"
    /\ op' = [NoOp EXCEPT !.name = "getRSProfile", !.pc = "pending", !.arg = username,
                          !.fetches = <<Request(profileUrl(username)),
                                        Request(questsUrl(username))>>]
    /\ UNCHANGED <<cacheVars, resolveVars>>

\* The i-th request settles
Respond(i, resp) ==
    /\ op.pc = "pending"
    /\ i \in DOMAIN op.fetches
    /\ op.fetches[i].resp = NoResponse
    /\ resp \in ResponsesOf(op.name, i)
    /\ op' = [op EXCEPT !.fetches[i].resp = resp]
    /\ UNCHANGED <<cacheVars, resolveVars>>

\* Awaited as if the stats response were checked before the quest request is
\* awaited
Awaited_StatsFirst ==
    \/ \A i \in DOMAIN op.fetches : op.fetches[i].resp # NoResponse
    \/ \E i \in DOMAIN op.fetches : op.fetches[i].resp = Rejected
    \/ /\ op.name = "getRSProfile"
       /\ op.fetches[1].resp.settled = "fulfilled"
       /\ ~op.fetches[1].resp.ok

\* What the function awaits has settled: every request fulfilled, or one
\* rejected
Awaited ==
    \/ \A i \in DOMAIN op.fetches : op.fetches[i].resp # NoResponse
    \/ \E i \in DOMAIN op.fetches : op.fetches[i].resp = Rejected

ResultOf(o) ==
    CASE o.name = "searchWiki"         -> searchWiki(o.fetches[1].resp)
      [] o.name = "getPage"            -> getPage(o.options, o.fetches[1].resp)
      [] o.name = "getCategoryMembers" -> getCategoryMembers(o.fetches[1].resp)
      [] o.name = "getRSProfile"       -> getRSProfile(o.fetches[1].resp,
                                                       o.fetches[2].resp)

\* The function runs from its await to its return or throw
Complete ==
    /\ op.pc = "pending"
    /\ Awaited
    /\ op' = [op EXCEPT !.pc = "done", !.result = ResultOf(op)]
    /\ UNCHANGED <<cacheVars, resolveVars>>

\* The caller has the result and may call again
Finish ==
    /\ op.pc = "done"
    /\ op' = NoOp
    /\ UNCHANGED <<cacheVars, resolveVars>>

InitClient ==
    /\ now = 0
    /\ files = [p \in Paths |-> NoFile]
    /\ written = [p \in Paths |-> {}]
    /\ call = [c \in Slots |-> Idle]
    /\ started = 0
    /\ env = UnsetEnv
    /\ rOptions = Undefined
    /\ rResolved = Undefined
    /\ op = NoOp

NextClient ==
    \/ \E query \in Queries : CallSearchWiki(query)
    \/ \E title \in Titles, options \in PageOptions : CallGetPage(title, options)
    \/ \E category \in Categories, options \in CategoryOptions :
          CallGetCategoryMembers(category, options)
    \/ \E username \in Usernames : CallGetRSProfile(username)
    \/ \E i \in 1..2, resp \in SearchResponses \cup PageResponses \cup
                               CategoryResponses \cup StatsResponses \cup
                               QuestsResponses : Respond(i, resp)
    \/ Complete
    \/ Finish

SpecClient == InitClient /\ [][NextClient]_vars

(***************************************************************************)
(* Claims about the client operations, checked under SpecClient.           *)
(***************************************************************************)
\* A getRSProfile call has returned to its caller
ProfileDone == op.name = "getRSProfile" /\ op.pc = "done"

StatsRes  == op.fetches[1].resp
QuestsRes == op.fetches[2].resp

\* The JSON body of a fulfilled response, undefined if it has none
BodyOfRes(resp) == IF ResponseJson(resp).ok THEN ResponseJson(resp).v ELSE Undefined

\* The stats request succeeded with the documented body and no error field
StatsSucceeded(resp) ==
    /\ resp.settled = "fulfilled"
    /\ resp.ok
    /\ BodyOfRes(resp).t = "object"
    /\ "error" \notin DOMAIN BodyOfRes(resp).p
    /\ Get(BodyOfRes(resp), "skillvalues").t = "array"
    /\ \A i \in DOMAIN Get(BodyOfRes(resp), "skillvalues").a :
          Get(BodyOfRes(resp), "skillvalues").a[i].t = "object"

\* The request came back with a non-success status
NonSuccess(resp) == resp.settled = "fulfilled" /\ ~resp.ok

\* C8: when the stats request succeeds without an error field and the quest
\* request comes back with a non-success status, getRSProfile returns a
\* profile whose quests are the empty list and whose name, combat level,
\* totals, quest counts and skills are those of the stats response.
C8_QuestFailureTolerated ==
    (ProfileDone /\ StatsSucceeded(StatsRes) /\ NonSuccess(QuestsRes)) =>
        /\ op.result.kind = "return"
        /\ op.result.v.t = "object"
        /\ Get(op.result.v, "quests") = Arr(<<>>)
        /\ Get(op.result.v, "name") = Get(BodyOfRes(StatsRes), "name")
        /\ Get(op.result.v, "combatLevel") = Get(BodyOfRes(StatsRes), "combatlevel")
        /\ Get(op.result.v, "totalSkill") = Get(BodyOfRes(StatsRes), "totalskill")
        /\ Get(op.result.v, "totalXp") = Get(BodyOfRes(StatsRes), "totalxp")
        /\ Get(op.result.v, "questsComplete") = Get(BodyOfRes(StatsRes), "questscomplete")
        /\ Get(op.result.v, "questsStarted") = Get(BodyOfRes(StatsRes), "questsstarted")
        /\ Get(op.result.v, "questsNotStarted")
              = Get(BodyOfRes(StatsRes), "questsnotstarted")
        /\ \A k \in DOMAIN Get(op.result.v, "skills").p :
              \E i \in DOMAIN Get(BodyOfRes(StatsRes), "skillvalues").a :
                 Get(op.result.v, "skills").p[k]
                    = Get(Get(BodyOfRes(StatsRes), "skillvalues").a[i], "level")
        /\ (Get(op.result.v, "skills").p = <<>>)
              <=> (Get(BodyOfRes(StatsRes), "skillvalues").a = <<>>)

\* C8 witness: a call has returned a profile with skills and no quests after
\* the quest endpoint answered with a non-success status that carried quests
C8_Witness ==
    /\ ProfileDone
    /\ StatsSucceeded(StatsRes)
    /\ Len(Get(BodyOfRes(StatsRes), "skillvalues").a) = 3
    /\ QuestsRes = Fulfilled(FALSE, "Forbidden", JsonText(Obj([quests |-> Arr(<<Quest>>)])))
    /\ op.result.kind = "return"
    /\ Get(op.result.v, "quests") = Arr(<<>>)
    /\ Get(Get(op.result.v, "skills"), "Necromancy") = Num(99)

\* The stats request ended with a non-success status or its JSON body carries
\* an error field
StatsFailed(resp) ==
    /\ resp.settled = "fulfilled"
    /\ \/ ~resp.ok
       \/ /\ BodyOfRes(resp).t = "object"
          /\ "error" \in DOMAIN BodyOfRes(resp).p

\* C9: getRSProfile returns null whenever the stats request ends with a
\* non-success status or its JSON body carries an error field, whatever the
\* quest request ended with.
C9_StatsFailureIsNull ==
    (ProfileDone /\ StatsFailed(StatsRes)) => op.result = Return(Null)

\* C9 witness: a call has returned null on an error body of the stats request
\* although the quest request succeeded with a quest list
C9_Witness ==
    /\ ProfileDone
    /\ StatsRes.settled = "fulfilled"
    /\ StatsRes.ok
    /\ Get(BodyOfRes(StatsRes), "error") = Str("PROFILE_PRIVATE")
    /\ QuestsRes = Ok(Obj([quests |-> Arr(<<Quest>>)]))
    /\ op.result = Return(Null)

\* The kinds of value each operation may hand to its caller
ValueTypes(name) ==
    CASE name = "searchWiki"         -> {"array"}
      [] name = "getCategoryMembers" -> {"array"}
      [] name = "getPage"            -> {"null", "string", "object"}
      [] name = "getRSProfile"       -> {"null", "object"}

\* C10: none of searchWiki, getPage, getCategoryMembers and getRSProfile
\* raises to its caller: whatever its requests end with (non-success status,
\* rejection, a body that is not the expected envelope), the call completes
\* with a list, a page result, a profile or null.
C10_NeverRaises ==
    op.pc = "done" =>
        /\ op.result.kind = "return"
        /\ op.result.v.t \in ValueTypes(op.name)

\* C10 witness: a search whose body is not the expected envelope (the hit list
\* holds a null) has completed with the empty list
C10_Witness ==
    /\ op.name = "searchWiki"
    /\ op.pc = "done"
    /\ op.fetches[1].resp = Ok(Obj([query |-> Obj([search |-> Arr(<<SearchHit, Null>>)])]))
    /\ op.result = Return(Arr(<<>>))

\* A profile was returned for a stats response of the documented shape
ProfileReturned ==
    /\ ProfileDone
    /\ StatsSucceeded(StatsRes)
    /\ op.result.kind = "return"
    /\ op.result.v.t = "object"

SkillRowsIn == Get(BodyOfRes(StatsRes), "skillvalues").a
SkillsOut   == Get(op.result.v, "skills").p

\* The key the claim gives a row: the table name of an id in 0..28, with
\* 0 = Attack and 28 = Necromancy, and Unknown(<id>) for any other id
KeyOfRow(row) ==
    LET id == Get(row, "id").n
    IN  IF id = 0 THEN "Attack"
        ELSE IF id = 28 THEN "Necromancy"
        ELSE IF id \in 1..27 THEN SkillNameSeq[id + 1]
        ELSE "Unknown(" \o ToString(id) \o ")"

\* C11 (as claimed): the skills mapping has exactly one entry per row of the
\* stats response, keyed by the table name of the row's id or Unknown(<id>),
\* whose value is that row's level; no row is dropped.
C11_OneEntryPerRow ==
    ProfileReturned =>
        /\ Cardinality(DOMAIN SkillsOut) = Len(SkillRowsIn)
        /\ \A i \in DOMAIN SkillRowsIn :
              /\ KeyOfRow(SkillRowsIn[i]) \in DOMAIN SkillsOut
              /\ SkillsOut[KeyOfRow(SkillRowsIn[i])] = Get(SkillRowsIn[i], "level")

\* C11 (amended): the keys of the skills mapping are exactly the keys of the
\* rows (table name for an id in 0..28, Unknown(<id>) otherwise), one entry
\* per distinct id, and an entry's value is the level of the last row with
\* that id; when the ids are pairwise distinct there is one entry per row.
C11_SkillsMapping ==
    ProfileReturned =>
        /\ DOMAIN SkillsOut = {KeyOfRow(SkillRowsIn[i]) : i \in DOMAIN SkillRowsIn}
        /\ Cardinality(DOMAIN SkillsOut)
              = Cardinality({Get(SkillRowsIn[i], "id") : i \in DOMAIN SkillRowsIn})
        /\ \A i \in DOMAIN SkillRowsIn :
              (\A j \in DOMAIN SkillRowsIn :
                  Get(SkillRowsIn[j], "id") = Get(SkillRowsIn[i], "id") => j <= i)
                => SkillsOut[KeyOfRow(SkillRowsIn[i])] = Get(SkillRowsIn[i], "level")

\* C11 witness: a profile returned for the rows (28, 99), (0, 50), (99, 1) has
\* Necromancy 99, Attack 50 and Unknown(99) 1
C11_Witness ==
    /\ ProfileReturned
    /\ Len(SkillRowsIn) = 3
    /\ DOMAIN SkillsOut = {"Necromancy", "Attack", "Unknown(99)"}
    /\ SkillsOut["Necromancy"] = Num(99)
    /\ SkillsOut["Unknown(99)"] = Num(1)

\* The single request of searchWiki, getPage and getCategoryMembers
TheRes == op.fetches[1].resp

\* C12: searchWiki and getCategoryMembers return the empty list, and raise
\* nothing, whenever their request is rejected or ends with a non-success
\* status, whatever body the response carries.
C12_FailureIsEmptyList ==
    (/\ op.pc = "done"
     /\ op.name \in {"searchWiki", "getCategoryMembers"}
     /\ (TheRes = Rejected \/ NonSuccess(TheRes)))
        => op.result = Return(Arr(<<>>))

\* C12 witness: getCategoryMembers has returned the empty list for a
\* non-success response whose body lists a member
C12_Witness ==
    /\ op.pc = "done"
    /\ op.name = "getCategoryMembers"
    /\ NonSuccess(TheRes)
    /\ ResponseJson(TheRes).ok
    /\ op.result = Return(Arr(<<>>))

\* The response carries an error envelope
ErrorEnvelope(resp) ==
    /\ resp.settled = "fulfilled"
    /\ BodyOfRes(resp).t = "object"
    /\ "error" \in DOMAIN BodyOfRes(resp).p

\* C13: getPage returns null whenever the response carries an error envelope
\* or has a non-success status, in JSON mode and in text mode alike: no page,
\* whole or partial, is returned.
C13_PageErrorIsNull ==
    (/\ op.pc = "done"
     /\ op.name = "getPage"
     /\ (NonSuccess(TheRes) \/ ErrorEnvelope(TheRes)))
        => op.result = Return(Null)

\* C13 witness: getPage in JSON mode has returned null for a non-success
\* response whose body holds a whole page
C13_Witness ==
    /\ op.pc = "done"
    /\ op.name = "getPage"
    /\ Truthy(OptField(op.options, "json"))
    /\ TheRes = Fulfilled(FALSE, "Server Error", JsonText(PageBody))
    /\ op.result = Return(Null)

\* getPage has returned, in text mode with a section filter, for a response
\* that holds a page
FilteredPageDone ==
    /\ op.pc = "done"
    /\ op.name = "getPage"
    /\ ~Truthy(OptField(op.options, "json"))
    /\ Truthy(OptField(op.options, "section"))
    /\ TheRes.settled = "fulfilled"
    /\ TheRes.ok
    /\ BodyOfRes(TheRes).t = "object"
    /\ ~ErrorEnvelope(TheRes)
    /\ Get(Get(Get(BodyOfRes(TheRes), "parse"), "text"), "*").t = "string"

\* The sections of the page in the response, and the filter of the call
PageSections == parseWikiContent(Get(Get(Get(BodyOfRes(TheRes), "parse"), "text"), "*"))
FilterText   == op.options.section.s

\* The sections whose name contains the filter, case-insensitively
MatchingSections ==
    {i \in DOMAIN PageSections :
        Includes(ToLowerCase(PageSections[i].key), ToLowerCase(FilterText))}

\* C14: in text mode with a section filter f, getPage returns the first
\* section, in the order of the parsed result, whose name contains f
\* case-insensitively, alone under its banner, so that nothing of any other
\* section is in the output; when no name contains f it returns a message
\* that lists every section name.
C14_SectionFilter ==
    FilteredPageDone =>
        /\ op.result.kind = "return"
        /\ op.result.v.t = "string"
        /\ \A i \in MatchingSections :
              (\A j \in MatchingSections : i <= j) =>
                 /\ op.result.v.s = "\n=== " \o PageSections[i].key \o " ===\n"
                                       \o PageSections[i].text \o "\n"
                 /\ \A k \in DOMAIN PageSections \ {i} :
                       /\ ~Includes(op.result.v.s, PageSections[k].key)
                       /\ ~Includes(op.result.v.s, PageSections[k].text)
        /\ MatchingSections = {} =>
              /\ StartsWith(op.result.v.s, "Section '" \o FilterText \o "' not found.")
              /\ \A i \in DOMAIN PageSections :
                    Includes(op.result.v.s, PageSections[i].key)

\* C14 witness: the filter DROP, matching the second and the fourth section
\* of the page, has returned the second one alone
C14_Witness ==
    /\ FilteredPageDone
    /\ FilterText = "DROP"
    /\ Cardinality(MatchingSections) = 2
    /\ op.result = Return(Str("\n=== Drop sources ===\nDrops\n"))

\* The value of a parameter of the request of the call
Param(name) ==
    LET params == op.fetches[1].url.params
    IN  params[CHOOSE i \in DOMAIN params : params[i][1] = name][2]

CategoryCalled == op.name = "getCategoryMembers" /\ op.pc # "idle"

\* C15: the category parameter of the request is the category name itself
\* when the name starts with "Category:" and "Category:" followed by the name
\* otherwise: the prefix is not added a second time, and prefixing the
\* parameter again changes nothing.
C15_CategoryPrefix ==
    CategoryCalled =>
        /\ StartsWith(op.arg, "Category:") => Param("cmtitle") = op.arg
        /\ ~StartsWith(op.arg, "Category:") => Param("cmtitle") = "Category:" \o op.arg
        /\ SubSeq(Param("cmtitle"), 1, 9) = "Category:"
        /\ ~StartsWith(op.arg, "Category:") =>
              SubSeq(Param("cmtitle"), 10, Len(Param("cmtitle"))) = op.arg
        /\ getCategoryMembersUrl(Param("cmtitle"), op.options) = op.fetches[1].url

\* C15 witness: a call for the already-prefixed name Category:Quests has sent
\* that name unchanged
C15_Witness ==
    /\ CategoryCalled
    /\ op.arg = "Category:Quests"
    /\ Param("cmtitle") = "Category:Quests"

\* The limit the caller supplied: 50 when it supplied none
CallerLimit ==
    IF OptField(op.options, "limit") = Undefined THEN Num(50) ELSE op.options.limit

\* C16: the list getCategoryMembers returns never has more entries than the
\* limit the caller supplied (50 when it supplied none), whatever the
\* endpoint responds, and the limit sent in the request is the caller's
\* limit, for every limit the caller passes.
C16_LimitRespected ==
    CategoryCalled =>
        /\ Param("cmlimit") = StringOf(CallerLimit)
        /\ (op.pc = "done" /\ IsFinite(CallerLimit)) =>
              Len(op.result.v.a) <= CallerLimit.n

(***************************************************************************)
(* parseWikiContent on its own: documents made of a summary part and up to *)
(* MaxSections sections, each a level-2 heading and what follows it.       *)
(***************************************************************************)
MaxSections == 2

\* Level-2 headings: with an edit link as text and one as MediaWiki renders
\* it, a year, and an edit link that follows the title without a space
Headings ==
    {Elem("h2", "", <<Text("History [edit]"),
                      Elem("span", "mw-editsection",
                           <<Text("["), Node("a", "", "edit"), Text(" | "),
                             Node("a", "", "edit source"), Text("]")>>)>>),
     Node("h2", "", "2007"),
     Node("h2", "", "Trivia[edit]")}

StatsTable ==
    Elem("table", "",
         <<Elem("tbody", "",
                <<Elem("tr", "", <<Node("th", "", "Name"), Node("th", "", "Value")>>),
                  Elem("tr", "", <<>>),
                  Elem("tr", "", <<Node("td", "", " Attack\n bonus "),
                                   Elem("td", "", <<Text("70"),
                                                    Node("span", "magnify", "ZOOM")>>)>>)>>)>>)

ItemList ==
    Elem("ul", "",
         <<Node("li", "", " Item 1 "),
           Elem("li", "", <<Node("script", "", "CODE"), Text("Item 2")>>)>>)

\* What may follow a heading: nothing; only noise, blank elements and text
\* outside any element; a subsection with a paragraph, a table and a list
Contents ==
    {<<>>,
     <<Node("style", "", ".css"), Node("p", "", "  "), Text("loose"),
       Elem("ul", "", <<>>)>>,
     <<Elem("h3", "", <<Text("Sub [edit]"), Node("span", "mw-editsection", "EDIT")>>),
       Elem("p", "", <<Text("Body"), Node("noscript", "", "NOJS")>>),
       StatsTable, ItemList, Node("div", "navbox", "NAV")>>}

\* A table with a table inside its only cell
InfoTable ==
    Elem("table", "",
         <<Elem("tr", "",
                <<Elem("td", "",
                       <<Text("Outer"),
                         Elem("table", "",
                              <<Elem("tr", "", <<Node("td", "", "Inner")>>)>>)>>)>>)>>)

\* How a document may open: what may stand before the first heading, and
\* two openings that hold a first section of their own, one titled Summary
\* and one titled like a later section
Summaries ==
    Contents \cup {<<Node("p", "", " Intro ")>>, <<Node("p", "", "One"), ItemList>>,
                   <<InfoTable>>,
                   <<Node("p", "", "Lead"), Node("h2", "", "Summary"), Node("p", "", "More")>>,
                   <<Node("h2", "", "2007"), Node("p", "", "First")>>}

RECURSIVE Flatten(_)
\* The child nodes of a document: the heading and the body of each part in turn
Flatten(parts) ==
    IF Len(parts) = 0 THEN <<>>
    ELSE <<parts[1].heading>> \o parts[1].body \o Flatten(Tail(parts))

SectionParts == [heading : Headings, body : Contents]

Documents ==
    {[wrapped |-> w, nodes |-> summary \o Flatten(parts)] :
        w \in BOOLEAN, summary \in Summaries,
        parts \in UNION {[1..n -> SectionParts] : n \in 0..MaxSections}}

\* parseWikiContent(html) is called and returns
CallParseWikiContent(html) ==
    /\ op.pc = "idle"
    /\ op' = [NoOp EXCEPT !.name = "parseWikiContent", !.pc = "done",
                          !.arg = html,
                          !.result = Return(parseWikiContent(html))]
    /\ UNCHANGED <<cacheVars, resolveVars>>

InitParse == InitClient

NextParse ==
    \/ \E doc \in Documents : CallParseWikiContent(Html(doc))
    \/ Finish

SpecParse == InitParse /\ [][NextParse]_vars

(***************************************************************************)
(* Claims about parseWikiContent, checked under SpecParse.                 *)
(***************************************************************************)
Parsed == op.name = "parseWikiContent" /\ op.pc = "done"

\* The document parsed, as one element, and the mapping returned
ParsedDoc  == Elem(IF op.arg.doc.wrapped THEN "div" ELSE "html", "", op.arg.doc.nodes)
ParsedKeys == [i \in DOMAIN op.result.v |-> op.result.v[i].key]

\* What one child element contributes to the text of its section
Contribution(n) ==
    IF n.tag \in {"h3", "h4"} THEN "\n=== " \o HeadingText(n) \o " ===" ELSE getText(n)

\* The summary text of a document without level-2 heading: the contributions
\* of the wrapper's child elements, one per line, or, without a wrapper, the
\* text of the document; noise elements left out
SummaryText ==
    IF op.arg.doc.wrapped
    THEN Join(SelectSeq([i \in DOMAIN Children(Clean(ParsedDoc)) |->
                            Contribution(Children(Clean(ParsedDoc))[i])],
                        LAMBDA t : t # ""), "\n")
    ELSE TextOf(Clean(ParsedDoc))

\* C17: for a document without level-2 heading, parseWikiContent returns the
\* empty mapping when the summary text is empty or whitespace-only and
\* otherwise the one-entry mapping of Summary to the trimmed summary text;
\* it returns a mapping for every document, the empty one included.
C17_SummaryOnly ==
    Parsed =>
        /\ op.result.kind = "return"
        /\ Find(ParsedDoc, {"h2"}) = <<>> =>
              op.result.v = IF Trim(SummaryText) = "" THEN <<>>
                            ELSE <<[key |-> "Summary", text |-> Trim(SummaryText)]>>

\* C17 witness: the document that is the empty string has been parsed to the
\* empty mapping
C17_Witness ==
    /\ Parsed
    /\ op.arg.doc = [wrapped |-> FALSE, nodes |-> <<>>]
    /\ op.result = Return(<<>>)

\* The level-2 headings parseWikiContent visits: the wrapper's child elements
\* that are h2, noise elements removed
VisitedHeadings == SelectSeq(RootChildren(op.arg.doc), LAMBDA n : n.tag = "h2")

\* C18: every key of the mapping parseWikiContent returns is the Summary key
\* or the text of a level-2 heading with its edit link removed and trimmed,
\* and no key contains a bracketed edit marker, whatever the heading's text.
C18_KeysEditLinkFree ==
    Parsed =>
        \A i \in DOMAIN ParsedKeys :
            /\ \/ ParsedKeys[i] = "Summary"
               \/ \E h \in DOMAIN VisitedHeadings :
                      ParsedKeys[i] = HeadingText(VisitedHeadings[h])
            /\ ~Includes(ParsedKeys[i], "[edit]")
            /\ ~Includes(ParsedKeys[i], "[edit | edit source]")

RECURSIVE NoiseTexts(_)
\* The texts of the style, script and noscript elements and of the elements of
\* class navbox, mw-editsection or magnify found under a node, at any depth
NoiseTexts(n) ==
    IF n.tag = "#text" THEN {}
    ELSE UNION {(IF IsNoise(n.kids[i]) THEN {TextOf(n.kids[i])} ELSE {})
                    \cup NoiseTexts(n.kids[i]) : i \in DOMAIN n.kids}

\* C19: no value of the mapping parseWikiContent returns contains the text of
\* a style, script or noscript element, of a navbox, of an edit-section link
\* or of a magnify artifact of the document, however deep the element lies.
C19_NoNoiseInValues ==
    Parsed =>
        \A i \in DOMAIN op.result.v :
            \A t \in NoiseTexts(ParsedDoc) : ~Includes(op.result.v[i].text, t)

\* C19 witness: a wrapped document with a magnify artifact inside a table cell
\* and a script inside a list item has been parsed, and the text next to them
\* is in a value
C19_Witness ==
    /\ Parsed
    /\ op.arg.doc.wrapped
    /\ {"ZOOM", "CODE"} \subseteq NoiseTexts(ParsedDoc)
    /\ \E i \in DOMAIN op.result.v :
           /\ Includes(op.result.v[i].text, "70")
           /\ Includes(op.result.v[i].text, "Item 2")

RECURSIVE OpenedSections(_, _, _, _)
\* The sections of the document in the order they are opened, each with its
\* name and its trimmed buffer: the summary, then one section per level-2
\* heading visited
OpenedSections(children, i, name, buffer) ==
    IF i > Len(children) THEN <<[key |-> name, text |-> Trim(Join(buffer, "\n"))]>>
    ELSE IF children[i].tag = "h2"
    THEN <<[key |-> name, text |-> Trim(Join(buffer, "\n"))]>>
            \o OpenedSections(children, i + 1, HeadingText(children[i]), <<>>)
    ELSE OpenedSections(children, i + 1, name,
                        IF Contribution(children[i]) = "" THEN buffer
                        ELSE Append(buffer, Contribution(children[i])))

RECURSIVE FirstOfEach(_, _)
\* A sequence of names with every repetition of an earlier name left out
FirstOfEach(names, i) ==
    IF i > Len(names) THEN <<>>
    ELSE (IF \E j \in 1..(i - 1) : names[j] = names[i] THEN <<>> ELSE <<names[i]>>)
            \o FirstOfEach(names, i + 1)

\* The names of the sections with a non-empty buffer, in the order opened
NonEmptySections ==
    FirstOfEach([i \in DOMAIN SelectSeq(OpenedSections(RootChildren(op.arg.doc), 1, "Summary", <<>>),
                                        LAMBDA e : e.text # "") |->
                    SelectSeq(OpenedSections(RootChildren(op.arg.doc), 1, "Summary", <<>>),
                              LAMBDA e : e.text # "")[i].key], 1)

\* C20: the keys of the mapping parseWikiContent returns, in iteration
\* order, are the sections whose trimmed buffer is non-empty, in the order
\* the document opens them, the summary first; a section with an empty
\* buffer is not a key.
C20_KeysInDocumentOrder ==
    Parsed => ParsedKeys = NonEmptySections

RECURSIVE RowsAmong(_, _)
\* The rows among the child elements of a table from the i-th on: a tr child,
\* and the tr children of a thead, tbody or tfoot child
RowsAmong(kids, i) ==
    IF i > Len(kids) THEN <<>>
    ELSE (IF kids[i].tag = "tr" THEN <<kids[i]>>
          ELSE IF kids[i].tag \in {"thead", "tbody", "tfoot"}
          THEN SelectSeq(Children(kids[i]), LAMBDA k : k.tag = "tr")
          ELSE <<>>) \o RowsAmong(kids, i + 1)

\* The rows of a table itself, and the cells of a row itself
DirectRows(table) == RowsAmong(Children(table), 1)

DirectCells(tr) == SelectSeq(Children(tr), LAMBDA k : k.tag \in {"th", "td"})

\* The lines the rows of a table are to give: for each row with a cell its
\* cell texts, whitespace-collapsed and trimmed, joined by " | "
TableLines(table) ==
    LET rows == SelectSeq(DirectRows(table), LAMBDA tr : Len(DirectCells(tr)) > 0)
    IN  Join([r \in DOMAIN rows |->
                 Join([c \in DOMAIN DirectCells(rows[r]) |->
                          CollapseSpaces(Trim(TextOf(DirectCells(rows[r])[c])))], " | ")
                 \o "\n"], "")

\* The name of the section the i-th child of the root falls in
SectionNameAt(children, i) ==
    IF \E j \in 1..(i - 1) : children[j].tag = "h2"
    THEN HeadingText(children[CHOOSE j \in 1..(i - 1) :
                                  /\ children[j].tag = "h2"
                                  /\ \A k \in (j + 1)..(i - 1) : children[k].tag # "h2"])
    ELSE "Summary"

\* The name is the name of one section of the document only
NamedOnce(children, name) ==
    Cardinality({j \in DOMAIN children :
                    children[j].tag = "h2" /\ HeadingText(children[j]) = name})
        = (IF name = "Summary" THEN 0 ELSE 1)

\* Some value of the result under the key holds the lines, each on a line of
\* its own
HoldsLines(name, lines) ==
    \E i \in DOMAIN op.result.v :
        /\ op.result.v[i].key = name
        /\ Includes("\n" \o op.result.v[i].text \o "\n", "\n" \o lines)

\* C21: for every table that is a child of the root, the text of its
\* section has one line per row with a cell, in row order, each line the
\* row's cell texts, whitespace-collapsed and trimmed, joined by " | ";
\* a row without cells gives no line.
C21_TableLines ==
    Parsed =>
        \A i \in DOMAIN RootChildren(op.arg.doc) :
            (/\ RootChildren(op.arg.doc)[i].tag = "table"
             /\ NamedOnce(RootChildren(op.arg.doc),
                          SectionNameAt(RootChildren(op.arg.doc), i)))
            => HoldsLines(SectionNameAt(RootChildren(op.arg.doc), i),
                          TableLines(RootChildren(op.arg.doc)[i]))

\* C30: every child of the root that is not a heading and has a non-empty
\* text has that text in the value stored under the name of its section,
\* also when two level-2 headings have the same text or one is titled
\* Summary.
C30_NoContentLost ==
    Parsed =>
        \A i \in DOMAIN RootChildren(op.arg.doc) :
            (/\ RootChildren(op.arg.doc)[i].tag \notin {"h2", "h3", "h4"}
             /\ Trim(getText(RootChildren(op.arg.doc)[i])) # "")
            => \E j \in DOMAIN op.result.v :
                   /\ op.result.v[j].key = SectionNameAt(RootChildren(op.arg.doc), i)
                   /\ Includes(op.result.v[j].text,
                               Trim(getText(RootChildren(op.arg.doc)[i])))

(***************************************************************************)
(* apps/cli: the profile command.                                          *)
(***************************************************************************)
MS_PER_HOUR == 3600000

\* cache-options.ts: the cache options the command hands to the client
buildCacheOptions(options) ==
    [enabled |-> IF options.cache.t = "boolean" THEN options.cache ELSE Undefined,
     ttlMs   |-> IF Truthy(options.cacheTtl)
                    /\ IsFinite(NumberOf(options.cacheTtl.s))
                    /\ NumberOf(options.cacheTtl.s).n > 0
                 THEN Num(NumberOf(options.cacheTtl.s).n * MS_PER_HOUR)
                 ELSE Undefined,
     dir     |-> IF Truthy(options.cacheDir) THEN options.cacheDir ELSE Undefined]

\* The characters of the model's names and titles in the order of their
\* code units
CodeUnits == " '()0123456789ABCDEFGHIJKLMNOPQRSTUVWXYZ_abcdefghijklmnopqrstuvwxyz"

CodeUnit(ch) == CHOOSE i \in 1..Len(CodeUnits) : CharAt(CodeUnits, i) = ch

RECURSIVE StringBefore(_, _)
\* a < b for strings: the order of Array.prototype.sort() without comparator
\* and, for the titles of the model, of a.localeCompare(b) < 0
StringBefore(a, b) ==
    IF b = "" THEN FALSE
    ELSE IF a = "" THEN TRUE
    ELSE IF CharAt(a, 1) # CharAt(b, 1)
    THEN CodeUnit(CharAt(a, 1)) < CodeUnit(CharAt(b, 1))
    ELSE StringBefore(SubSeq(a, 2, Len(a)), SubSeq(b, 2, Len(b)))

RECURSIVE SortedKeys(_)
\* Object.keys(data.skills).sort()
SortedKeys(keys) ==
    IF keys = {} THEN <<>>
    ELSE LET first == CHOOSE k \in keys : \A o \in keys \ {k} : StringBefore(k, o)
         IN  <<first>> \o SortedKeys(keys \ {first})

RECURSIVE padEnd(_, _)
\* s.padEnd(n)
padEnd(s, n) == IF Len(s) >= n THEN s ELSE padEnd(s \o " ", n)

RECURSIVE toLocaleString(_)
\* n.toLocaleString() of a non-negative integer, with the grouping of the
\* default en-US locale
toLocaleString(n) ==
    IF n < 1000 THEN ToString(n)
    ELSE toLocaleString(n \div 1000) \o ","
            \o (IF n % 1000 < 10 THEN "00" ELSE IF n % 1000 < 100 THEN "0" ELSE "")
            \o ToString(n % 1000)

\* Lines 55-61: the comparator's answer that a sorts before b
QuestBefore(a, b) ==
    IF Get(a, "status") = Get(b, "status")
    THEN StringBefore(Get(a, "title").s, Get(b, "title").s)
    ELSE IF Get(a, "status") = Str("STARTED") THEN TRUE
    ELSE IF Get(b, "status") = Str("STARTED") THEN FALSE
    ELSE Get(a, "status") = Str("COMPLETED")

RECURSIVE SortedQuests(_)
\* [...data.quests].sort(comparator): a stable sort
SortedQuests(quests) ==
    IF Len(quests) = 0 THEN <<>>
    ELSE LET first == CHOOSE i \in DOMAIN quests :
                          /\ \A j \in DOMAIN quests : ~QuestBefore(quests[j], quests[i])
                          /\ \A j \in 1..(i - 1) : QuestBefore(quests[i], quests[j])
         IN  <<quests[first]>>
                \o SortedQuests([j \in 1..(Len(quests) - 1) |->
                                    IF j < first THEN quests[j] ELSE quests[j + 1]])

\* Lines 45-50: the skills, two to a line
SkillLines(skills) ==
    LET sorted == SortedKeys(DOMAIN skills.p)
    IN  [n \in 1..((Len(sorted) + 1) \div 2) |->
            padEnd(sorted[2 * n - 1], 15) \o ": "
               \o padEnd(StringOf(skills.p[sorted[2 * n - 1]]), 3) \o " "
               \o (IF 2 * n <= Len(sorted)
                   THEN " | " \o padEnd(sorted[2 * n], 15) \o ": "
                           \o StringOf(skills.p[sorted[2 * n]])
                   ELSE "")]

\* Lines 52-70: the quests, started ones first
QuestLines(quests) ==
    [i \in DOMAIN quests |->
        padEnd(Get(SortedQuests(quests)[i], "status").s, 12) \o " "
            \o Get(SortedQuests(quests)[i], "title").s]

\* profile(username, options) once getRSProfile has resolved to data: what
\* the command has written to the console, one element per console.log
profile(username, options, data) ==
    LET json     == Truthy(options.json)
        fetching == IF json THEN <<>>
                    ELSE <<"Fetching RuneMetrics profile for: " \o username \o "...">>
    IN  IF ~Truthy(data)
        THEN Return(fetching \o
                    <<IF json
                      THEN JSONstringify(Obj([error |-> Str("Profile not found or private")]))
                      ELSE "Profile not found or private.">>)
        ELSE IF json THEN Return(<<JSONstringify(data)>>)
        ELSE Return(
               fetching \o
               <<"\n=== Profile: " \o StringOf(Get(data, "name")) \o " ===",
                 "Combat Level: " \o StringOf(Get(data, "combatLevel")),
                 "Total Skill: " \o StringOf(Get(data, "totalSkill")),
                 "Total XP: " \o toLocaleString(Get(data, "totalXp").n),
                 "Quests: " \o StringOf(Get(data, "questsComplete")) \o " complete, "
                    \o StringOf(Get(data, "questsStarted")) \o " started, "
                    \o StringOf(Get(data, "questsNotStarted")) \o " not started",
                 "\n--- Skills ---">>
               \o SkillLines(Get(data, "skills"))
               \o (IF Truthy(options.quests)
                   THEN <<"\n--- Quests ---">> \o QuestLines(Get(data, "quests").a)
                   ELSE <<>>))

\* The options commander passes for the flags of the profile command: a flag
\* that is set is true, one that is not set is undefined; at most one of the
\* "only" flags is set
OnlyFlags == {"skillsOnly", "questsOnly", "completedQuestsOnly", "startedQuestsOnly",
              "notStartedQuestsOnly"}

Flag(set) == IF set THEN Bool(TRUE) ELSE Undefined

ProfileOptions ==
    {[json |-> Flag(j), quests |-> Flag(q),
      skillsOnly |-> Flag(only = "skillsOnly"), questsOnly |-> Flag(only = "questsOnly"),
      completedQuestsOnly  |-> Flag(only = "completedQuestsOnly"),
      startedQuestsOnly    |-> Flag(only = "startedQuestsOnly"),
      notStartedQuestsOnly |-> Flag(only = "notStartedQuestsOnly"),
      cache |-> c, cacheTtl |-> ttl, cacheDir |-> Undefined] :
        j \in BOOLEAN, q \in BOOLEAN, only \in OnlyFlags \cup {""},
        c \in {Bool(TRUE), Bool(FALSE)}, ttl \in {Undefined, Str("12")}}

QuestWith(title, status) ==
    Obj([title |-> Str(title), status |-> Str(status),
         questPoints |-> Num(1), members |-> Bool(TRUE)])

\* Quest lists of the three statuses, in an order that is not the order of
\* the statuses
QuestLists ==
    {<<>>,
     <<QuestWith("Dragon Slayer", "NOT_STARTED"), QuestWith("Cook's Assistant", "COMPLETED"),
       QuestWith("Animal Magnetism", "STARTED"), QuestWith("Biohazard", "COMPLETED")>>,
     <<QuestWith("Biohazard", "STARTED")>>}

\* What getRSProfile may resolve to: null, or the profile of a stats body
\* and a quest list
ProfileData ==
    {getRSProfile(Rejected, Rejected).v}
      \cup {getRSProfile(Ok(StatsBody(Arr(rows))), Ok(Obj([quests |-> Arr(quests)]))).v :
               rows \in {<<>>, <<SkillRow(28, 99), SkillRow(0, 50), SkillRow(99, 1)>>},
               quests \in QuestLists}

\* Lines 5-71 of profile.ts: the command runs to its end
CallProfile(username, options, data) ==
    /\ op.pc = "idle"
    /\ op' = [NoOp EXCEPT !.name = "profile", !.pc = "done", !.arg = username,
                          !.options = options,
                          !.fetches = <<[username |-> username,
                                         cache |-> buildCacheOptions(options),
                                         data |-> data]>>,
                          !.result = profile(username, options, data)]
    /\ UNCHANGED <<cacheVars, resolveVars>>

InitProfile == InitClient

NextProfile ==
    \/ \E username \in Usernames, options \in ProfileOptions, data \in ProfileData :
          CallProfile(username, options, data)
    \/ Finish

SpecProfile == InitProfile /\ [][NextProfile]_vars

(***************************************************************************)
(* Claims about the profile command, checked under SpecProfile.            *)
(***************************************************************************)
\* The command has run in JSON mode for a profile that was found
JsonProfilePrinted ==
    /\ op.name = "profile" /\ op.pc = "done"
    /\ Truthy(op.options.json)
    /\ op.fetches[1].data # Null

\* The quests of the profile with one of the statuses, each reduced to its
\* title and status
ReducedQuests(statuses) ==
    LET kept == SelectSeq(Get(op.fetches[1].data, "quests").a,
                          LAMBDA q : Get(q, "status").s \in statuses)
    IN  Arr([i \in DOMAIN kept |->
                Obj([title |-> Get(kept[i], "title"), status |-> Get(kept[i], "status")])])

\* The statuses the flags of the call select
SelectedStatuses ==
    IF Truthy(op.options.completedQuestsOnly) THEN {"COMPLETED"}
    ELSE IF Truthy(op.options.startedQuestsOnly) THEN {"STARTED"}
    ELSE IF Truthy(op.options.notStartedQuestsOnly) THEN {"NOT_STARTED"}
    ELSE {"COMPLETED", "STARTED", "NOT_STARTED"}

QuestFlagSet ==
    \E f \in OnlyFlags \ {"skillsOnly"} : Truthy(op.options[f])

\* C22: in JSON mode with one of the flags for quests only, for completed,
\* for started or for not started quests only, the profile command prints
\* one object whose quests are exactly the profile's quests of the selected
\* status (all of them for quests only), each with its title and status
\* alone, and which has no skills and no name field.
C22_QuestFilters ==
    (JsonProfilePrinted /\ QuestFlagSet) =>
        /\ op.result.kind = "return"
        /\ Len(op.result.v) = 1
        /\ JSONparse(op.result.v[1]).ok
        /\ Get(JSONparse(op.result.v[1]).v, "quests") = ReducedQuests(SelectedStatuses)
        /\ Get(JSONparse(op.result.v[1]).v, "skills") = Undefined
        /\ Get(JSONparse(op.result.v[1]).v, "name") = Undefined

(***************************************************************************)
(* Claims about concurrent calls of fetchJsonWithCache, checked under Spec. *)
(***************************************************************************)
\* C23: whatever a write on the same key is doing, a lookup ends in a miss
\* or returns the whole body passed to some write of its key; a file that
\* is being written, or that two writes left unparseable, is a miss.
C23_LookupNeverPartial ==
    [][\A c \in Slots :
          (call[c].pc = "read" /\ Stepped(c))
          => /\ \/ call'[c].pc = "rm"
                \/ call'[c].cached = Null
                \/ /\ call'[c].cached \in written[call[c].path]
                   /\ call'[c].result = Return(call'[c].cached)
             /\ FileOf(c) \in {Partial, Garbage}
                => call'[c].cached = Null /\ call'[c].pc = "fetch"]_vars

\* C23's case: a lookup is awaiting the text of a file that another call's
\* fs.writeFile has opened and not yet written
C23_Witness ==
    \E c, d \in Slots :
        /\ call[c].pc = "read"
        /\ call[d].pc = "writing"
        /\ call[c].path = call[d].path
        /\ FileOf(c) = Partial

\* The file holds an entry that is fresh for a lookup with the TTL at time t
Fresh(file, ttlMs, t) == IsEntry(file) /\ t - StoredAt(file) <= ttlMs

\* C26: a lookup removes a file only if the entry the file holds when it is
\* removed is stale or malformed; a fresh entry that another call has
\* written is never removed by a lookup.
C26_RemovesOnlyStale ==
    [][\A c \in Slots :
          (call[c].pc = "rm" /\ Stepped(c))
          => ~Fresh(FileOf(c), call[c].cache.ttlMs.n, now)]_vars

\* C29: a hit leaves the file as it is, storedAt and body included, so that
\* an entry stored at T is a miss for every lookup made after T + ttlMs,
\* however many lookups hit it before.
C29_HitLeavesEntry ==
    [][\A c \in Slots :
          (call[c].pc = "read" /\ Stepped(c) /\ IsEntry(FileOf(c)))
          => /\ call'[c].pc = "done" => files' = files
             /\ now > StoredAt(FileOf(c)) + call[c].cache.ttlMs.n
                => /\ call'[c].pc = "rm"
                   /\ call'[c].result = NoResult]_vars

\* C29's case: one call has hit an entry and, after the entry's TTL, the
\* lookup of another call with the same TTL has found the entry stale
C29_Witness ==
    \E c, d \in Slots :
        /\ call[d].pc = "done" /\ call[d].reqs = 0
        /\ call[d].path = call[c].path
        /\ call[d].cache.ttlMs = call[c].cache.ttlMs
        /\ IsEntry(FileOf(c))
        /\ call[d].result = Return(BodyOf(FileOf(c)))
        /\ call[c].pc = "rm"
        /\ now > StoredAt(FileOf(c)) + call[c].cache.ttlMs.n

(***************************************************************************)
(* SpecRequests: the behaviours of Spec together with those of SpecClient, *)
(* for what holds of every operation that issues requests.                 *)
(***************************************************************************)
InitRequests == Init \/ InitClient

NextRequests ==
    \/ op = Undefined /\ Next
    \/ op # Undefined /\ NextClient

SpecRequests == InitRequests /\ [][NextRequests]_vars

\* C24: no operation issues a request a second time: a fetchJsonWithCache
\* call issues at most one request; searchWiki, getPage and
\* getCategoryMembers issue exactly one; getRSProfile issues one to each of
\* its two endpoints; and none issues another whatever the requests end with.
C24_NoRetry ==
    /\ \A c \in Slots :
          /\ call[c].reqs <= 1
          /\ call[c].result.kind = "throw" => call[c].reqs = 1
    /\ (op # Undefined /\ op.pc # "idle") =>
          /\ op.name \in {"searchWiki", "getPage", "getCategoryMembers"}
                => Len(op.fetches) = 1
          /\ op.name = "getRSProfile"
                => /\ Len(op.fetches) = 2
                   /\ op.fetches[1].url = profileUrl(op.arg)
                   /\ op.fetches[2].url = questsUrl(op.arg)
                   /\ op.fetches[1].url # op.fetches[2].url

\* C24's case: a fetchJsonWithCache call has failed on its request and
\* ended, having issued that one request
C24_Witness ==
    \E c \in Slots :
        /\ call[c].pc = "done"
        /\ call[c].response \in {Rejected, Fulfilled(FALSE, "Not Found", Garbage)}
        /\ call[c].result.kind = "throw"
        /\ call[c].reqs = 1

\* The quest request was rejected, or was answered with a body that is not
\* JSON
QuestsUnreadable ==
    \/ QuestsRes = Rejected
    \/ /\ QuestsRes.settled = "fulfilled"
       /\ ~ResponseJson(QuestsRes).ok

\* C27: when the stats request is answered with a profile and the quest
\* request is rejected or answered with a body that is not JSON,
\* getRSProfile returns a profile, not null, whose quests are the empty list.
C27_QuestFailureTolerated ==
    (ProfileDone /\ StatsSucceeded(StatsRes) /\ QuestsUnreadable) =>
        /\ op.result.kind = "return"
        /\ op.result.v # Null
        /\ Get(op.result.v, "quests") = Arr(<<>>)

\* A step of a getRSProfile call: the call starts both requests at once,
\* the quest request is there whatever the stats request ends with, and the
\* call returns only when both requests have settled, or in the case early
ProfileStep(early) ==
    /\ (op.pc = "idle" /\ op'.name = "getRSProfile") =>
          op'.fetches = <<Request(profileUrl(op'.arg)), Request(questsUrl(op'.arg))>>
    /\ (op.name = "getRSProfile" /\ StatsRes # NoResponse) =>
          /\ Len(op.fetches) = 2
          /\ op.fetches[2].url = questsUrl(op.arg)
    /\ (op.name = "getRSProfile" /\ op.pc = "pending" /\ op'.pc = "done") =>
          \/ StatsRes # NoResponse /\ QuestsRes # NoResponse
          \/ early

\* C25 as stated: getRSProfile starts both requests before it looks at a
\* response, the quest request also when the stats request fails, and
\* returns no result before both requests have completed.
C25_BothAwaited == [][ProfileStep(FALSE)]_vars

\* C25 amended: as above, except that the call returns null as soon as one
\* of the two requests is rejected, the other still being under way; a
\* profile is returned only from two fulfilled requests.
C25_BothAwaitedUnlessRejected ==
    [][/\ ProfileStep(/\ Rejected \in {StatsRes, QuestsRes}
                      /\ op'.result = Return(Null))
       /\ (op'.name = "getRSProfile" /\ op'.pc = "done" /\ op'.result # Return(Null)) =>
             /\ op'.fetches[1].resp.settled = "fulfilled"
             /\ op'.fetches[2].resp.settled = "fulfilled"]_vars

\* C25's case: getRSProfile has returned null on a rejected request while
\* its other request is still under way
C25_Witness ==
    /\ ProfileDone
    /\ Rejected \in {StatsRes, QuestsRes}
    /\ NoResponse \in {StatsRes, QuestsRes}
    /\ op.result = Return(Null)

(***************************************************************************)
(* SpecKey: the cache keys fetchJsonWithCache derives for two requests     *)
(* made without an explicit key.                                           *)
(***************************************************************************)
KeyUrls    == {"https://h/a", "https://h/a:b"}
KeyMethods == {Undefined, Str("post"), Str("POST")}
KeyBodies  == {Undefined, Str(""), Str("c"), Str("b:c"),
               [t |-> "URLSearchParams", query |-> "c"]}

\* What a caller passes: the URL and options.fetchOptions
KeyRequests ==
    [url : KeyUrls,
     fetchOptions : {Undefined} \cup [method : KeyMethods, body : KeyBodies]]

InitKey ==
    /\ now = 0
    /\ files = [p \in Paths |-> NoFile]
    /\ written = [p \in Paths |-> {}]
    /\ call = [c \in Slots |-> Idle]
    /\ started = 0
    /\ env = UnsetEnv
    /\ rOptions \in KeyRequests \X KeyRequests
    /\ rResolved = <<>>
    /\ op = Undefined

\* Lines 1214-1215 for the next of the two requests: its key and the name
\* of its cache file
DeriveKey ==
    /\ Len(rResolved) < 2
    /\ LET r        == rOptions[Len(rResolved) + 1]
           cacheKey == buildCacheKey(r.url, r.fetchOptions, Undefined)
       IN  rResolved' = Append(rResolved, [cacheKey |-> cacheKey,
                                           file |-> hashKey(cacheKey) \o ".json"])
    /\ UNCHANGED <<cacheVars, clientVars, rOptions>>

NextKey == DeriveKey

SpecKey == InitKey /\ [][NextKey]_vars

\* The method of a request, upper-cased, GET when none is given
MethodOf(r) ==
    IF OptField(r.fetchOptions, "method") = Undefined THEN "GET"
    ELSE ToUpperCase(r.fetchOptions.method.s)

\* The body of a request as it is serialized for sending
SerializedBody(r) ==
    LET body == OptField(r.fetchOptions, "body")
    IN  CASE body = Undefined           -> ""
          [] body.t = "string"          -> body.s
          [] body.t = "URLSearchParams" -> body.query

\* C28: two requests that differ in upper-cased method, in URL or in
\* serialized body are given different cache keys, hence different cache
\* files, when no explicit key is passed.
C28_KeyInjective ==
    (/\ Len(rResolved) = 2
     /\ \/ MethodOf(rOptions[1]) # MethodOf(rOptions[2])
        \/ rOptions[1].url # rOptions[2].url
        \/ SerializedBody(rOptions[1]) # SerializedBody(rOptions[2]))
    => /\ rResolved[1].cacheKey # rResolved[2].cacheKey
       /\ rResolved[1].file # rResolved[2].file

====
